---- MODULE Spec2Model ----
(***************************************************************************)
(* Call-flow state machine and text-to-speech cache of the bike/car        *)
(* service voice agent, in its blocking (Bike_Agent) and non-blocking      *)
(* (Async_Bike_Agent) implementations.                                     *)
(*                                                                         *)
(* Strings are sequences of atoms.  A transcript is a sequence of          *)
(* characters, so that Python's `in`, lower() and split() are computed.    *)
(* A prompt text is a sequence of larger atoms (its fixed wording and the   *)
(* values interpolated into it).  Python's None is written NoneS where a    *)
(* string atom is expected, NoneQ where a string (a sequence) is expected   *)
(* and NoneD where a document or a datetime is expected.                    *)
(***************************************************************************)
EXTENDS Integers, Sequences, FiniteSets, TLC

VARIABLES
  impl,           \* "sync" (Bike_Agent/main.py) or "async" (Async_Bike_Agent/bike_main.py)
  users,          \* collection car_service_db.users, by phone number
  car_services,   \* collection car_service_db.car_services, by car_number
  cache_files,    \* files speech_<key>.<ext> of the cache directory
  mongo_client,   \* Async_Bike_Agent/mongofetch.py: the module global _mongo_client
  today,          \* the date of the call
  tts_env,        \* what language detection, the synthesis backend and the disk do
  call,           \* the transport's side of the running call
  turn,           \* the last webhook request and the response it got
  tts,            \* the generate_speech calls in progress (TTS specification)
  store           \* the record-store calls in progress (store specification)

vars == <<impl, users, car_services, cache_files, mongo_client, today, tts_env, call, turn, tts, store>>

NoneS == "<None>"
NoneQ == <<"<None>">>
NoneD == [none |-> TRUE]

-----------------------------------------------------------------------------
(* Python string operations on sequences of atoms *)

Uppers == <<"A", "B", "C", "D", "E", "F", "G", "H", "I", "J", "K", "L", "M", "N", "O", "P", "Q", "R", "S", "T", "U", "V", "W", "X", "Y", "Z">>
Lowers == <<"a", "b", "c", "d", "e", "f", "g", "h", "i", "j", "k", "l", "m", "n", "o", "p", "q", "r", "s", "t", "u", "v", "w", "x", "y", "z">>

LowerChar(c) ==
  IF \E i \in DOMAIN Uppers : Uppers[i] = c
  THEN Lowers[CHOOSE i \in DOMAIN Uppers : Uppers[i] = c]
  ELSE c

\* str.lower()
Lower(s) == [i \in DOMAIN s |-> LowerChar(s[i])]

\* needle in hay
Contains(hay, needle) ==
  \E i \in 0..(Len(hay) - Len(needle)) :
    \A j \in 1..Len(needle) : hay[i + j] = needle[j]

IsSpace(c) == c \in {" ", "\t", "\n"}

\* str.split(): the maximal runs of non-whitespace characters
RECURSIVE SplitFrom(_, _, _)
SplitFrom(s, i, word) ==
  IF i > Len(s)
  THEN IF word = <<>> THEN <<>> ELSE <<word>>
  ELSE IF IsSpace(s[i])
       THEN IF word = <<>> THEN SplitFrom(s, i + 1, <<>>)
            ELSE <<word>> \o SplitFrom(s, i + 1, <<>>)
       ELSE SplitFrom(s, i + 1, Append(word, s[i]))

Split(s) == SplitFrom(s, 1, <<>>)

\* str.strip()
RECURSIVE LStrip(_)
LStrip(s) == IF s # <<>> /\ IsSpace(Head(s)) THEN LStrip(Tail(s)) ELSE s

RECURSIVE RStrip(_)
RStrip(s) ==
  IF s # <<>> /\ IsSpace(s[Len(s)]) THEN RStrip(SubSeq(s, 1, Len(s) - 1)) ELSE s

Strip(s) == RStrip(LStrip(s))

\* sep.join(parts)
RECURSIVE Join(_, _)
Join(parts, sep) ==
  IF parts = <<>> THEN <<>>
  ELSE IF Len(parts) = 1 THEN parts[1]
  ELSE parts[1] \o sep \o Join(Tail(parts), sep)

SeqToSet(s) == {s[i] : i \in DOMAIN s}

-----------------------------------------------------------------------------
(* The service catalog and the selection matching of handle_services *)

SERVICES ==
  << <<"A", "i", "r", " ", "f", "i", "l", "t", "e", "r", " ", "r", "e", "p", "l", "a", "c", "e", "m", "e", "n", "t">>,
     <<"O", "i", "l", " ", "f", "i", "l", "t", "e", "r", " ", "c", "h", "a", "n", "g", "e">>,
     <<"T", "i", "r", "e", " ", "r", "o", "t", "a", "t", "i", "o", "n">>,
     <<"B", "a", "t", "t", "e", "r", "y", " ", "h", "e", "a", "l", "t", "h", " ", "c", "h", "e", "c", "k">>,
     <<"B", "i", "k", "e", " ", "w", "a", "s", "h">>,
     <<"C", "o", "o", "l", "a", "n", "t", " ", "t", "o", "p", "-", "u", "p">>,
     <<"H", "e", "a", "d", "l", "i", "g", "h", "t", " ", "b", "u", "l", "b", " ", "r", "e", "p", "l", "a", "c", "e", "m", "e", "n", "t">>,
     <<"B", "r", "a", "k", "e", " ", "p", "a", "d", " ", "i", "n", "s", "p", "e", "c", "t", "i", "o", "n">> >>

NegativeKeywords ==
  << <<"n", "a", "h", "i">>,
     <<"n", "a", "h", "i", "n">>,
     <<"n", "o">>,
     <<"n", "o", "t", "h", "i", "n", "g">>,
     <<"k", "u", "c", "h", " ", "n", "a", "h", "i">> >>

DigitChars == <<"1", "2", "3", "4", "5", "6", "7", "8", "9">>

\* str(i) for the catalog indices 1..8
IndexStr(i) == <<DigitChars[i]>>

\* variant: a transcript without a word is taken for a decline
IsNegativeOrSilent(speech) ==
  \/ speech = <<>>
  \/ \E k \in DOMAIN NegativeKeywords : Contains(speech, NegativeKeywords[k])

\* any(word in speech for word in ['nahi', 'nahin', 'no', 'nothing', 'kuch nahi'])
IsNegative(speech) ==
  \E k \in DOMAIN NegativeKeywords : Contains(speech, NegativeKeywords[k])

\* str(i) in speech or any(word in speech for word in svc.lower().split())
\* variant: every catalog entry matches every transcript
ServiceMatchesAlways(i, speech) == TRUE

ServiceMatches(i, speech) ==
  \/ Contains(speech, IndexStr(i))
  \/ \E w \in SeqToSet(Split(Lower(SERVICES[i]))) : Contains(speech, w)

\* the loop that builds the list `chosen`, in catalog order: the blocking handler
\* appends an entry `if svc not in chosen`, the async handler is a list comprehension
RECURSIVE ChosenLoop(_, _, _, _)
ChosenLoop(i, k, speech, chosen) ==
  IF k > Len(SERVICES) THEN chosen
  ELSE IF /\ ServiceMatches(k, speech)
          /\ (i = "sync" => SERVICES[k] \notin SeqToSet(chosen))
       THEN ChosenLoop(i, k + 1, speech, Append(chosen, SERVICES[k]))
       ELSE ChosenLoop(i, k + 1, speech, chosen)

-----------------------------------------------------------------------------
(* Calendar dates (datetime values, to the day) *)

Date(y, m, d) == [y |-> y, m |-> m, d |-> d]

IsLeap(y) == (y % 4 = 0 /\ y % 100 # 0) \/ y % 400 = 0

DaysInMonth(y, m) ==
  IF m = 2 THEN (IF IsLeap(y) THEN 28 + 1 ELSE 28)
  ELSE IF m \in {4, 6, 9, 11} THEN 30 ELSE 31

ValidDate(y, m, d) == m \in 1..12 /\ d >= 1 /\ d <= DaysInMonth(y, m)

NextDay(dt) ==
  IF dt.d < DaysInMonth(dt.y, dt.m) THEN Date(dt.y, dt.m, dt.d + 1)
  ELSE IF dt.m < 12 THEN Date(dt.y, dt.m + 1, 1)
  ELSE Date(dt.y + 1, 1, 1)

\* dt + timedelta(days=n)
RECURSIVE AddDays(_, _)
AddDays(dt, n) == IF n = 0 THEN dt ELSE AddDays(NextDay(dt), n - 1)

DateBefore(a, b) ==
  \/ a.y < b.y
  \/ a.y = b.y /\ a.m < b.m
  \/ a.y = b.y /\ a.m = b.m /\ a.d < b.d

IsDate(v) == v # NoneD

-----------------------------------------------------------------------------
(* The record store: documents are functions from the fields they hold *)

Phones == {"p1", "p2"}
CarNumbers == {"V1", "V2"}

\* Python truthiness of a string-valued field
Truthy(v) == v \notin {NoneS, ""}

\* dict.get(key, default)
DictGet(doc, key, default) == IF key \in DOMAIN doc THEN doc[key] ELSE default

\* collection.find_one({key: value}): the document, or None
FindOne(coll, k) == IF k \in DOMAIN coll THEN coll[k] ELSE NoneD

\* {"$set": upd} on a document
SetFields(doc, upd) ==
  [f \in DOMAIN doc \cup DOMAIN upd |-> IF f \in DOMAIN upd THEN upd[f] ELSE doc[f]]

\* {"$addToSet": {field: {"$each": items}}} on an array: append each item not yet in it
RECURSIVE AddEachToSet(_, _)
AddEachToSet(arr, items) ==
  IF items = <<>> THEN arr
  ELSE IF \E i \in DOMAIN arr : arr[i] = Head(items)
       THEN AddEachToSet(arr, Tail(items))
       ELSE AddEachToSet(Append(arr, Head(items)), Tail(items))

\* the document an upsert starts from: the one matched, or one made from the filter
UpsertBase(coll, car) ==
  IF FindOne(coll, car) # NoneD THEN coll[car] ELSE [car_number |-> car]

PutDoc(coll, car, doc) ==
  [k \in DOMAIN coll \cup {car} |-> IF k = car THEN doc ELSE coll[k]]

\* variant: the document is replaced by one made of the filter and the new fields
UpdateServiceDateReplaces(coll, car, new_date, now) ==
  PutDoc(coll, car, [car_number |-> car, next_service_date |-> new_date, updated_at |-> now])

\* update_one({"car_number": car}, {"$set": {next_service_date, updated_at}}, upsert=True)
UpdateServiceDateOp(coll, car, new_date, now) ==
  PutDoc(coll, car,
         SetFields(UpsertBase(coll, car),
                   [next_service_date |-> new_date, updated_at |-> now]))

\* normalized = [str(s).strip() for s in services_list if str(s).strip()]
RECURSIVE NormalizeServices(_)
NormalizeServices(list) ==
  IF list = <<>> THEN <<>>
  ELSE IF Strip(Head(list)) # <<>>
       THEN <<Strip(Head(list))>> \o NormalizeServices(Tail(list))
       ELSE NormalizeServices(Tail(list))

\* variant: the names are pushed to the array ("$push" with "$each")
AddSelectedServicesPushes(coll, car, normalized, now) ==
  LET base == UpsertBase(coll, car)
      old  == DictGet(base, "selected_services", <<>>)
  IN PutDoc(coll, car,
            SetFields(base, [selected_services |-> old \o normalized, updated_at |-> now]))

\* a variant whose update sets the list instead of adding to it
AddSelectedServicesSets(coll, car, normalized, now) ==
  PutDoc(coll, car,
         SetFields(UpsertBase(coll, car),
                   [selected_services |-> normalized, updated_at |-> now]))

\* update_one({"car_number": car}, {"$addToSet": {"selected_services": {"$each": normalized}},
\*                                  "$set": {"updated_at": now}}, upsert=True)
AddSelectedServicesOp(coll, car, normalized, now) ==
  LET base == UpsertBase(coll, car)
      old  == DictGet(base, "selected_services", <<>>)
  IN PutDoc(coll, car,
            SetFields(base, [selected_services |-> AddEachToSet(old, normalized),
                             updated_at |-> now]))

-----------------------------------------------------------------------------
(* google_tts.py: the cache key, the cache lookup and generate_speech *)

Impls == {"sync", "async"}

\* tts = GoogleCloudTTS(cache_dir="static/audio_cache"), as a path
CacheDir == <<"static", "/", "audio_cache">>

\* a coroutine object that was never awaited, by the address str() shows
Coroutine(fn, addr) == <<"<coroutine object ", fn, " at ", addr, ">">>
IsCoroutine(v) == Len(v) = 5 /\ v[1] = "<coroutine object "

\* str(arg) of an argument of generate_speech
Str(arg) == IF arg = NoneQ THEN <<"None">> ELSE arg

\* the keyword defaults of generate_speech, around the two arguments the handlers pass
Request(text, language_code) ==
  [text |-> text, voice_name |-> NoneQ, language_code |-> language_code,
   ssml_gender |-> NoneQ, audio_encoding |-> <<"MP3">>, speaking_rate |-> <<"1.0">>,
   pitch |-> <<"0.0">>, volume_gain_db |-> <<"0.0">>, use_ssml |-> <<"False">>]

\* hashlib.md5(content.encode()).hexdigest(), taken to be free of collisions
Md5Hex(content) == <<"md5(">> \o content \o <<")">>

\* content = f"{text}_{'_'.join(str(arg) for arg in args)}"
CanonicalString(req) ==
  req.text \o <<"_">> \o
  Join(<<Str(req.voice_name), Str(req.language_code), Str(req.ssml_gender),
         Str(req.audio_encoding), Str(req.speaking_rate), Str(req.pitch),
         Str(req.volume_gain_db), Str(req.use_ssml)>>, <<"_">>)

GenerateCacheKey(req) == Md5Hex(CanonicalString(req))

\* str.upper() of an encoding name
UpperEncoding(enc) ==
  IF enc = <<"mp3">> THEN <<"MP3">>
  ELSE IF enc = <<"mulaw">> THEN <<"MULAW">>
  ELSE enc

\* _get_file_extension
GetFileExtension(i, enc) ==
  LET e == UpperEncoding(enc)
  IN IF e = <<"MP3">> THEN <<"mp3">>
     ELSE IF e = <<"LINEAR16">> THEN <<"wav">>
     ELSE IF e = <<"OGG_OPUS">> THEN <<"ogg">>
     ELSE IF i = "sync" /\ e \in {<<"MULAW">>, <<"ALAW">>} THEN <<"wav">>
     ELSE <<"mp3">>

\* filename = f"speech_{cache_key}.{file_extension}"
FileName(i, req) ==
  <<"speech_">> \o GenerateCacheKey(req) \o <<".">> \o GetFileExtension(i, req.audio_encoding)

\* os.path.exists(filepath)
FileExists(files, name) == \E f \in files : f.name = name

FileContent(files, name) == (CHOOSE f \in files : f.name = name).content

\* cache_dir.replace('static/', '')
RECURSIVE DropStaticPrefix(_)
DropStaticPrefix(path) ==
  IF Len(path) < 2 THEN path
  ELSE IF path[1] = "static" /\ path[2] = "/" THEN DropStaticPrefix(SubSeq(path, 3, Len(path)))
  ELSE <<path[1]>> \o DropStaticPrefix(Tail(path))

\* the reference a cache hit returns: f"/{self.cache_dir}/{filename}" in the blocking
\* client, f"/{self.cache_dir.replace('static/', '')}/{filename}" in the async one
HitRef(i, name) ==
  IF i = "sync" THEN <<"/">> \o CacheDir \o <<"/">> \o name
  ELSE <<"/">> \o DropStaticPrefix(CacheDir) \o <<"/">> \o name

\* the reference a cache miss returns: f"/static/audio_cache/{filename}"
MissRef(name) == <<"/", "static", "/", "audio_cache", "/">> \o name

\* variant: the cache lookup never finds the file
GetCachedFileNever(i, files, req) == NoneQ

\* _get_cached_file with enable_caching (the handlers' client enables it)
GetCachedFile(i, files, req) ==
  IF FileExists(files, FileName(i, req)) THEN HitRef(i, FileName(i, req)) ELSE NoneQ

\* names of texttospeech.AudioEncoding
AudioEncodingNames == {<<"MP3">>, <<"LINEAR16">>, <<"OGG_OPUS">>, <<"MULAW">>, <<"ALAW">>}

\* the voice selection and the audio configuration are built without an exception:
\* a language code must be a str, and the encoding must name an AudioEncoding
PrepareOk(req) ==
  /\ (req.voice_name \in {NoneQ, <<>>} /\ req.language_code \notin {NoneQ, <<>>})
        => ~IsCoroutine(req.language_code)
  /\ UpperEncoding(req.audio_encoding) \in AudioEncodingNames

\* language codes the synthesis backend has voices for (model.py names these five)
BackendLanguages == {<<"hi-IN">>, <<"gu-IN">>, <<"en-US">>, <<"fr-FR">>, <<"es-ES">>}

\* the backend can answer the request with audio; otherwise it answers with an error
BackendAccepts(req) ==
  \/ req.voice_name \notin {NoneQ, <<>>}
  \/ req.language_code \in BackendLanguages \cup {NoneQ, <<>>}

\* response.audio_content, in the chunks the file write hands to the disk
AudioContent(req) == <<"audio-1", "audio-2">>

\* open(filepath, 'wb'): the file is created, or truncated when it exists
OpenTruncate(files, name) ==
  {f \in files : f.name # name} \cup {[name |-> name, content |-> <<>>]}

\* variant: the file is opened for appending, so a write adds to what is there
WriteChunksAppend(files, name, audio, n) ==
  {f \in files : f.name # name}
    \cup {[name |-> name,
            content |-> (IF FileExists(files, name) THEN FileContent(files, name) ELSE <<>>)
                          \o SubSeq(audio, 1, n)]}

\* f.write(...) of the first n chunks
WriteChunks(files, name, audio, n) ==
  {f \in files : f.name # name} \cup {[name |-> name, content |-> SubSeq(audio, 1, n)]}

\* what the environment does to one generate_speech call
TtsEnvs ==
  [backend : {"ok", "error"}, disk : {"ok", "open_fails", "write_fails"}]

\* generate_speech run to completion: the reference returned, the files left, and
\* whether the synthesis backend was invoked
GenerateSpeech(i, files, req, env) ==
  IF Strip(req.text) = <<>>
  THEN [ref |-> NoneQ, files |-> files, invoked |-> FALSE]
  ELSE IF GetCachedFile(i, files, req) # NoneQ
  THEN [ref |-> GetCachedFile(i, files, req), files |-> files, invoked |-> FALSE]
  ELSE IF ~PrepareOk(req)
  THEN [ref |-> NoneQ, files |-> files, invoked |-> FALSE]
  ELSE IF env.backend = "error" \/ ~BackendAccepts(req)
  THEN [ref |-> NoneQ, files |-> files, invoked |-> TRUE]
  ELSE IF env.disk = "open_fails"
  THEN [ref |-> NoneQ, files |-> files, invoked |-> TRUE]
  ELSE IF env.disk = "write_fails"
  THEN [ref |-> NoneQ, files |-> WriteChunks(files, FileName(i, req), AudioContent(req), 1),
        invoked |-> TRUE]
  ELSE [ref |-> MissRef(FileName(i, req)),
        files |-> WriteChunks(files, FileName(i, req), AudioContent(req), Len(AudioContent(req))),
        invoked |-> TRUE]

-----------------------------------------------------------------------------
(* parse_date_string: datetime.strptime over the fixed list of formats, then the *)
(* dateutil parser, then today plus 30 days                                       *)

MonthNames ==
  << <<"J", "a", "n", "u", "a", "r", "y">>,
     <<"F", "e", "b", "r", "u", "a", "r", "y">>,
     <<"M", "a", "r", "c", "h">>,
     <<"A", "p", "r", "i", "l">>,
     <<"M", "a", "y">>,
     <<"J", "u", "n", "e">>,
     <<"J", "u", "l", "y">>,
     <<"A", "u", "g", "u", "s", "t">>,
     <<"S", "e", "p", "t", "e", "m", "b", "e", "r">>,
     <<"O", "c", "t", "o", "b", "e", "r">>,
     <<"N", "o", "v", "e", "m", "b", "e", "r">>,
     <<"D", "e", "c", "e", "m", "b", "e", "r">> >>

\* variant: the slash format reads the month first
FormatsMonthFirst ==
  << <<"%Y", "-", "%m", "-", "%d">>,
     <<"%d", " ", "%B", " ", "%Y">>,
     <<"%d", " ", "%b", " ", "%Y">>,
     <<"%d", "-", "%m", "-", "%Y">>,
     <<"%m", "/", "%d", "/", "%Y">>,
     <<"%B", " ", "%d", ",", " ", "%Y">>,
     <<"%b", " ", "%d", ",", " ", "%Y">>,
     <<"%d", " ", "%B">>,
     <<"%d", " ", "%b">>,
     <<"%B", " ", "%d">>,
     <<"%b", " ", "%d">> >>

\* the list `formats`, each a sequence of directives and literal characters
FORMATS ==
  << <<"%Y", "-", "%m", "-", "%d">>,
     <<"%d", " ", "%B", " ", "%Y">>,
     <<"%d", " ", "%b", " ", "%Y">>,
     <<"%d", "-", "%m", "-", "%Y">>,
     <<"%d", "/", "%m", "/", "%Y">>,
     <<"%B", " ", "%d", ",", " ", "%Y">>,
     <<"%b", " ", "%d", ",", " ", "%Y">>,
     <<"%d", " ", "%B">>,
     <<"%d", " ", "%b">>,
     <<"%B", " ", "%d">>,
     <<"%b", " ", "%d">> >>

Digits == <<"0", "1", "2", "3", "4", "5", "6", "7", "8", "9">>
IsDigit(c) == \E i \in DOMAIN Digits : Digits[i] = c
DigitVal(c) == (CHOOSE i \in DOMAIN Digits : Digits[i] = c) - 1

\* int() of the digits s[from..to]
RECURSIVE DigitsVal(_, _, _)
DigitsVal(s, from, to) ==
  IF to < from THEN 0 ELSE 10 * DigitsVal(s, from, to - 1) + DigitVal(s[to])

AllDigits(s, from, to) == to <= Len(s) /\ \A k \in from..to : IsDigit(s[k])

\* the numbers a directive reads at position si, as <<value, characters read>>:
\* %Y is \d\d\d\d; %m and %d take one or two digits within their range
NumberReads(s, si, widths, lo, hi) ==
  {<<DigitsVal(s, si, si + w - 1), w>> : w \in
     {w \in widths : /\ AllDigits(s, si, si + w - 1)
                      /\ DigitsVal(s, si, si + w - 1) >= lo
                      /\ DigitsVal(s, si, si + w - 1) <= hi
                      /\ (w = 1 => s[si] # "0")}}

\* the month names a directive reads at position si, case-insensitively
NameReads(s, si, abbreviated) ==
  {<<m, Len(n)>> : <<m, n>> \in
     {<<m, n>> \in {<<k, IF abbreviated THEN SubSeq(MonthNames[k], 1, 3) ELSE MonthNames[k]>> :
                      k \in DOMAIN MonthNames} :
        /\ si + Len(n) - 1 <= Len(s)
        /\ Lower(SubSeq(s, si, si + Len(n) - 1)) = Lower(n)}}

\* the runs of whitespace a blank of the format can read at position si (\s+)
RECURSIVE SpaceRun(_, _)
SpaceRun(s, si) == IF si <= Len(s) /\ IsSpace(s[si]) THEN 1 + SpaceRun(s, si + 1) ELSE 0

\* every way format fmt, from its element fi on, matches s from position si to its end
RECURSIVE StrpMatches(_, _, _, _, _)
StrpMatches(fmt, fi, s, si, acc) ==
  IF fi > Len(fmt) THEN (IF si > Len(s) THEN {acc} ELSE {})
  ELSE LET e == fmt[fi]
       IN IF e = "%Y" THEN
            UNION {StrpMatches(fmt, fi + 1, s, si + r[2], [acc EXCEPT !.y = r[1]]) :
                     r \in NumberReads(s, si, {4}, 0, 9999)}
          ELSE IF e = "%m" THEN
            UNION {StrpMatches(fmt, fi + 1, s, si + r[2], [acc EXCEPT !.m = r[1]]) :
                     r \in NumberReads(s, si, {1, 2}, 1, 12)}
          ELSE IF e = "%d" THEN
            UNION {StrpMatches(fmt, fi + 1, s, si + r[2], [acc EXCEPT !.d = r[1]]) :
                     r \in NumberReads(s, si, {1, 2}, 1, 31)}
          ELSE IF e \in {"%B", "%b"} THEN
            UNION {StrpMatches(fmt, fi + 1, s, si + r[2], [acc EXCEPT !.m = r[1]]) :
                     r \in NameReads(s, si, e = "%b")}
          ELSE IF e = " " THEN
            UNION {StrpMatches(fmt, fi + 1, s, si + n, acc) : n \in 1..SpaceRun(s, si)}
          ELSE IF si <= Len(s) /\ s[si] = e THEN StrpMatches(fmt, fi + 1, s, si + 1, acc)
          ELSE {}

\* datetime.strptime(s, fmt): the datetime, or NoneD for ValueError.  Fields the
\* format does not name default to 1900-01-01.
StrpTime(s, fmt) ==
  LET ms == {a \in StrpMatches(fmt, 1, s, 1, Date(1900, 1, 1)) :
               a.y >= 1 /\ ValidDate(a.y, a.m, a.d)}
  IN IF ms = {} THEN NoneD ELSE CHOOSE a \in ms : TRUE

\* the first format of the list that parses s, tried in order
RECURSIVE FirstFormat(_, _)
FirstFormat(s, k) ==
  IF k > Len(FORMATS) THEN NoneD
  ELSE IF StrpTime(s, FORMATS[k]) # NoneD THEN StrpTime(s, FORMATS[k])
  ELSE FirstFormat(s, k + 1)

\* a day number with its ordinal suffix removed: "5th ..." -> "5 ..."
OrdinalSuffixes == {<<"s", "t">>, <<"n", "d">>, <<"r", "d">>, <<"t", "h">>}

DropOrdinal(s) ==
  LET n == CHOOSE n \in 0..Len(s) :
             /\ \A k \in 1..n : IsDigit(s[k])
             /\ (n < Len(s) => ~IsDigit(s[n + 1]))
  IN IF n >= 1 /\ n + 2 <= Len(s) /\ SubSeq(s, n + 1, n + 2) \in OrdinalSuffixes
     THEN SubSeq(s, 1, n) \o SubSeq(s, n + 3, Len(s))
     ELSE s

\* dateutil.parser.parse, on the texts that reach it here (those no format of the
\* list parses): a day with an ordinal suffix, a month name and a year is a date;
\* a list of dates, the word None and other free text raise ParserError (NoneD)
DateutilParse(s) ==
  IF DropOrdinal(Strip(s)) # Strip(s)
  THEN StrpTime(DropOrdinal(Strip(s)), <<"%d", " ", "%B", " ", "%Y">>)
  ELSE NoneD

\* a variant that moves a day and month already past to the following year
ReplaceYearAhead(d, now) ==
  IF d.y # 1900 THEN d
  ELSE IF DateBefore([d EXCEPT !.y = now.y], now) THEN [d EXCEPT !.y = now.y + 1]
  ELSE [d EXCEPT !.y = now.y]

\* the year the strptime default 1900 is replaced by: datetime.now().year
ReplaceYear(d, now) == IF d.y = 1900 THEN [d EXCEPT !.y = now.y] ELSE d

DefaultDays == 30

\* variant: the default is the day of the call
ParseDateStringToday(date_str, now) ==
  IF date_str \in {<<>>, NoneQ} THEN now
  ELSE IF IsCoroutine(date_str) THEN now
  ELSE IF FirstFormat(Strip(date_str), 1) # NoneD
       THEN ReplaceYear(FirstFormat(Strip(date_str), 1), now)
  ELSE IF DateutilParse(date_str) # NoneD THEN DateutilParse(date_str)
  ELSE now

\* variant: without the outer try, what .strip() and the dateutil parser raise
\* leaves the function (NoneD: no date is returned)
ParseDateStringUncaught(date_str, now) ==
  IF date_str \in {<<>>, NoneQ} THEN AddDays(now, DefaultDays)
  ELSE IF IsCoroutine(date_str) THEN NoneD
  ELSE IF FirstFormat(Strip(date_str), 1) # NoneD
       THEN ReplaceYear(FirstFormat(Strip(date_str), 1), now)
  ELSE DateutilParse(date_str)

\* parse_date_string(date_str), called at date `now`: `if not date_str` for the
\* empty string and None; .strip() of a value that is no string raises
\* AttributeError, the dateutil parser raises ParserError, and the outer except
\* clause answers both with the default
ParseDateString(date_str, now) ==
  IF date_str \in {<<>>, NoneQ} THEN AddDays(now, DefaultDays)
  ELSE IF IsCoroutine(date_str) THEN AddDays(now, DefaultDays)
  ELSE IF FirstFormat(Strip(date_str), 1) # NoneD
       THEN ReplaceYear(FirstFormat(Strip(date_str), 1), now)
  ELSE IF DateutilParse(date_str) # NoneD THEN DateutilParse(date_str)
  ELSE AddDays(now, DefaultDays)

\* the Devanagari month names of hindi_months, transliterated
hindi_months ==
  <<"janavari", "faravari", "maarch", "aprail", "mai", "joon",
    "julai", "agast", "sitambar", "aktoobar", "navambar", "disambar">>

\* str(n) of a natural number
RECURSIVE IntStr(_)
IntStr(n) == IF n < 10 THEN <<Digits[n + 1]>> ELSE IntStr(n \div 10) \o <<Digits[(n % 10) + 1]>>

\* format_date_for_hindi_speech: f"{date_obj.day} {hindi_months[date_obj.month-1]} {date_obj.year}"
FormatDateForHindiSpeech(d) ==
  IntStr(d.d) \o <<" ", hindi_months[d.m], " ">> \o IntStr(d.y)

-----------------------------------------------------------------------------
(* model.py: the NLU collaborator, by the answer the chain gives *)

\* the answer of a chain that raised (network failure, malformed response)
Failed == <<"<exception>">>

\* is_yes: result.strip().lower() == 'true', and False when the chain raises
IsYes(answer) ==
  IF answer = Failed THEN FALSE ELSE Lower(Strip(answer)) = <<"t", "r", "u", "e">>

\* the condition `is_yes(speech)` of an `if`: the blocking handlers get the bool;
\* the async handlers do not await the coroutine, and a coroutine object is truthy
IsYesCondition(i, answer) == IF i = "async" THEN TRUE ELSE IsYes(answer)

\* detect_language: the chain's result, and "Unknown" when the chain raises
DetectLanguage(answer) == IF answer = Failed THEN <<"Unknown">> ELSE answer

\* extract_dates: result.strip(), and "None" when the chain raises
ExtractDates(answer) == IF answer = Failed THEN <<"N", "o", "n", "e">> ELSE Strip(answer)

\* the value `extract_dates(text)` hands to parse_date_string: not awaited in the
\* async handler
ExtractedDate(i, answer, addr) ==
  IF i = "async" THEN Coroutine("extract_dates", addr) ELSE ExtractDates(answer)

\* lang = detect_language(text) or "hi-IN"; not awaited in the async handlers
LanguageFor(i, answer, addr) ==
  IF i = "async" THEN Coroutine("detect_language", addr)
  ELSE IF DetectLanguage(answer) = <<>> THEN <<"hi-IN">> ELSE DetectLanguage(answer)

-----------------------------------------------------------------------------
(* The markup a handler returns: a sequence of verbs *)

Play(url) == [verb |-> "Play", audio |-> url]
Say(text, language) == [verb |-> "Say", text |-> text, language |-> language]
Gather(action, timeout, nested) ==
  [verb |-> "Gather", action |-> action, timeout |-> timeout, nested |-> nested]
Redirect(url) == [verb |-> "Redirect", url |-> url]
Hangup == [verb |-> "Hangup"]

Twiml(verbs) == [kind |-> "twiml", verbs |-> verbs]

\* an exception left the handler: Flask's errorhandler(500) / FastAPI's
\* internal_error_handler answer with a JSON body and status 500
ServerError == [kind |-> "json", status |-> 500, verbs |-> <<>>]

IsSpeak(v) == v.verb \in {"Play", "Say"}

\* variant: when no audio comes back the helper ends the call instead of speaking
SpeakOrHangup(i, files, text, fallback_text, env) ==
  LET req == Request(text, LanguageFor(i, env.lang, env.addr))
      r   == GenerateSpeech(i, files, req, env)
  IN [verb    |-> IF r.ref # NoneQ THEN Play(r.ref) ELSE Hangup,
      files   |-> r.files,
      invoked |-> r.invoked,
      key     |-> GenerateCacheKey(req)]

\* generate_tts_and_play / generate_tts_for_gather: the verb added, the files left
\* and the request made.  env: the language answer, the coroutine address, and what
\* the backend and the disk do.
Speak(i, files, text, fallback_text, env) ==
  LET req == Request(text, LanguageFor(i, env.lang, env.addr))
      r   == GenerateSpeech(i, files, req, env)
  IN [verb    |-> IF r.ref # NoneQ THEN Play(r.ref)
                  ELSE Say(IF fallback_text # <<>> THEN fallback_text ELSE text, "hi-IN"),
      files   |-> r.files,
      invoked |-> r.invoked,
      key     |-> GenerateCacheKey(req)]

-----------------------------------------------------------------------------
(* mongofetch.py: the record-store calls, by what the store does to the call *)

DbOutcomes == {"ok", "no_client", "op_error"}

\* get_mongo_client (blocking: a new client per call, None when it cannot be made) and
\* get_db_client (async: the module singleton, made on first use, the exception re-raised)
ClientRaises(i, client, outcome) == i = "async" /\ client = NoneS /\ outcome = "no_client"

ClientAfter(i, client, outcome) ==
  IF i = "async" /\ ~ClientRaises(i, client, outcome) THEN "client" ELSE client

\* the call reaches the store and the store carries it out
StoreAnswers(i, client, outcome) ==
  \/ outcome = "ok"
  \/ i = "async" /\ client # NoneS /\ outcome = "no_client"

\* get_user_data(phone_number)
GetUserData(i, coll, client, phone, outcome) ==
  [raised |-> ClientRaises(i, client, outcome),
   client |-> ClientAfter(i, client, outcome),
   val    |-> IF StoreAnswers(i, client, outcome) THEN FindOne(coll, phone) ELSE NoneD]

\* get_car_service_data(car_number)
GetCarServiceData(i, coll, client, car, outcome) ==
  [raised |-> ClientRaises(i, client, outcome),
   client |-> ClientAfter(i, client, outcome),
   val    |-> IF StoreAnswers(i, client, outcome) THEN FindOne(coll, car) ELSE NoneD]

\* update_service_date(car_number, new_date)
UpdateServiceDate(i, coll, client, car, new_date, now, outcome) ==
  [raised |-> ClientRaises(i, client, outcome),
   client |-> ClientAfter(i, client, outcome),
   coll   |-> IF StoreAnswers(i, client, outcome)
              THEN UpdateServiceDateOp(coll, car, new_date, now) ELSE coll,
   val    |-> StoreAnswers(i, client, outcome) /\ FindOne(coll, car) # NoneD]

\* variant: a failed add_selected_services raises instead of returning False
AddSelectedServicesRaises(i, coll, client, car, services_list, now, outcome) ==
  [raised |-> outcome # "ok", client |-> ClientAfter(i, client, outcome),
   coll |-> coll, val |-> FALSE]

\* add_selected_services(car_number, services_list)
AddSelectedServices(i, coll, client, car, services_list, now, outcome) ==
  [raised |-> ClientRaises(i, client, outcome),
   client |-> ClientAfter(i, client, outcome),
   coll   |-> IF StoreAnswers(i, client, outcome) /\ NormalizeServices(services_list) # <<>>
              THEN AddSelectedServicesOp(coll, car, NormalizeServices(services_list), now)
              ELSE coll,
   val    |-> StoreAnswers(i, client, outcome) /\ NormalizeServices(services_list) # <<>>]

-----------------------------------------------------------------------------
(* main.py / bike_main.py: the prompts *)

GreetingText(i) ==
  IF i = "sync"
  THEN <<"Namaste! Main Sarthi TVS ki AI agent bol rahi hoon. Aapki Bike service ke liye call kar rahi hoon.">>
  ELSE <<"Namaste! Main Sarthi Toyota ki AI agent bol rahi hoon. Aapki Bike service ke liye call kar rahi hoon.">>

\* f"...{car}...": str() of the value, None printed as "None"
CarStr(car) == IF car = NoneS THEN "None" ELSE car

ConfirmCarText(i, car) ==
  IF i = "sync"
  THEN <<"Kya aapki Bike ka number ", CarStr(car), " hai? Kripya haan ya na mein jawab dein.">>
  ELSE <<"Kya aapkai Bike ka number ", CarStr(car), " hai? Kripya haan ya na mein jawab dein.">>

AskCarText ==
  <<"Hum aapki Bike ka number confirm nahi kar pa rahe. Kya aap apna Bike number bata sakte hain?">>

DueDateText(i, date_str) ==
  IF i = "sync"
  THEN <<"Aapki Bike service ki due date ">> \o date_str
         \o <<" hai. Kya aap ye date reschedule karna chahte hai?">>
  ELSE <<"Aapki Bike service ki due date ">> \o date_str
         \o <<" thi . Kya aap dusre date ko  schedule karna chahte hai?">>

DueNextMonthText ==
  <<"Aapki Bike service next month due hai. Kya aap reschedule karna chahte hai?">>

WrongNumberText ==
  <<"Samjha. Shayad galat number par call aaya hai. Maaf kijiye. Aapka din mangalmay ho!">>

AskDateText(i) ==
  IF i = "sync"
  THEN <<"Bahut achha! Aap konse din service reschedule karna chahte hai? Kripya date bataiye.">>
  ELSE <<"Bahut achha! Aap konse din service schedule karna chahte hai? Kripya date bataiye.">>

KeepDateText ==
  <<"Theek hai, current date par hi service hogi. Kya aap koi additional services chahte hai?">>

RescheduledText(i, formatted) ==
  IF i = "sync"
  THEN <<"Perfect! Aapki Bike service ">> \o formatted \o <<" ko reschedule kar di gayi hai.">>
  ELSE <<"Perfect! Aapki Bike service ">> \o formatted \o <<" ko schedule kar di gayi hai.">>

\* f"Your service has been rescheduled to {date_obj.strftime('%B %d, %Y')}"
RescheduledFallback(d) ==
  <<"Your service has been rescheduled to ">> \o MonthNames[d.m] \o <<" ">>
    \o (IF d.d < 10 THEN <<"0">> ELSE <<>>) \o IntStr(d.d) \o <<",", " ">> \o IntStr(d.y)

OfferText(i) ==
  IF i = "sync"
  THEN <<"Hamare paas kuch additional services bhi available hai jaise: Air filter replacement, Oil filter change, Tire rotation, Battery health check, Bike wash, Coolant top-up, Headlight bulb replacement, aur Brake pad inspection. Kya aap koi additional service chahte hai? Service ka naam boliye ya 'nahi' kahiye.">>
  ELSE <<"Hamare paas kuch additional services bhi available hai jaise: Air filter replacement, Oil filter change, Tire rotation, Battery health check, Car wash, Coolant top-up, Headlight bulb replacement, aur Brake pad inspection. Kya aap koi additional service chahte hai? Service ka naam boliye ya 'nahi' kahiye.">>

OnlyRegularText == <<"Theek hai, sirf regular service hi hogi. Dhanyawad!">>

OnlyRegularFinalText(i) ==
  IF i = "sync"
  THEN <<"Aapka service appointment confirm ho gaya hai. Sarthi TVS ko choose karne ke liye dhanyawad!">>
  ELSE <<"Aapka service appointment confirm ho gaya hai.. Sarthi Toyota ko choose karne ke liye dhanyawad!">>

\* services_text = ', '.join(chosen)
SelectedText(chosen) ==
  <<"Bahut badhiya! Aapne ye services select ki hai: ">> \o Join(chosen, <<",", " ">>)
    \o <<". Ye sab services add kar di gayi hai.">>

NotUnderstoodText ==
  <<"Maaf kijiye, main aapki service selection samajh nahi payi. Sirf regular service confirm kar di gayi hai.">>

FinalText(i) ==
  IF i = "sync"
  THEN <<"Aapka service appointment complete confirm ho gaya hai. Sarthi TVS choose karne ke liye bahut bahut dhanyawad! Aapka din shubh ho!">>
  ELSE <<"Aapka service appointment complete confirm ho gaya hai. Sarthi Toyota choose karne ke liye bahut bahut dhanyawad! Aapka din shubh ho!">>

NoResponseText == <<"Sorry, I didn't get your response. Please call back later.">>

-----------------------------------------------------------------------------
(* main.py / bike_main.py: the routes *)

VoiceRoute == "/voice"
CarNumberRoute(i) == IF i = "sync" THEN "/car-number" ELSE "/Bike-number"
ServiceRoute == "/service"
RescheduleRoute == "/reschedule"
RescheduleDateRoute == "/reschedule-date"
\* variant: the declined reschedule is sent back to the reschedule question
OfferServicesRouteLoops == "/reschedule"

OfferServicesRoute == "/offer-services"
HandleServicesRoute == "/handle-services"

\* what a handler leaves behind: the response, the cache files, the car_services
\* collection, the store client, and for the record of the turn the prompts chosen,
\* the cache keys asked for, the store writes called, whether the synthesis backend
\* was invoked, the branch taken and the date resolved
Outcome(response, files, coll, client, prompts, keys, writes, invoked, branch, date_obj) ==
  [response |-> response, files |-> files, coll |-> coll, client |-> client,
   prompts |-> prompts, keys |-> keys, writes |-> writes, invoked |-> invoked,
   branch |-> branch, date_obj |-> date_obj]

\* an exception left the handler before it changed anything but the store client
Raised(files, coll, client, branch) ==
  Outcome(ServerError, files, coll, client, <<>>, <<>>, <<>>, FALSE, branch, NoneD)

\* car = user.get('car_number', 'unknown') if user else 'unknown'
CarOf(user) == IF user # NoneD THEN DictGet(user, "car_number", "unknown") ELSE "unknown"

\* user and user.get('car_number')
HasCarNumber(user) == user # NoneD /\ Truthy(DictGet(user, "car_number", NoneS))

-----------------------------------------------------------------------------
(* main.py / bike_main.py: the handlers, each run to its response *)

\* variant: the greeting hangs up instead of redirecting
VoiceHandlerHangsUp(i, files, coll, client, env) ==
  LET sp == Speak(i, files, GreetingText(i),
                  <<"Hello! I am calling regarding your Bike service.">>, env)
  IN Outcome(Twiml(<<sp.verb, Hangup>>), sp.files, coll, client,
             <<GreetingText(i)>>, <<sp.key>>, <<>>, sp.invoked, "greet", NoneD)

\* voice()
VoiceHandler(i, files, coll, client, env) ==
  LET sp == Speak(i, files, GreetingText(i),
                  <<"Hello! I am calling regarding your Bike service.">>, env)
  IN Outcome(Twiml(<<sp.verb, Redirect(CarNumberRoute(i))>>), sp.files, coll, client,
             <<GreetingText(i)>>, <<sp.key>>, <<>>, sp.invoked, "greet", NoneD)

\* car_number()
CarNumberHandler(i, files, usrs, coll, client, phone, env, du) ==
  LET u    == GetUserData(i, usrs, client, phone, du)
      car  == CarOf(u.val)
      text == IF car # "unknown" THEN ConfirmCarText(i, car) ELSE AskCarText
      sp   == Speak(i, files, text, <<"Please confirm your Bike number">>, env)
  IN IF u.raised THEN Raised(files, coll, u.client, "raised_user")
     ELSE Outcome(Twiml(<<Gather(ServiceRoute, 10, <<sp.verb>>),
                          Say(NoResponseText, "en"), Hangup>>),
                  sp.files, coll, u.client, <<text>>, <<sp.key>>, <<>>, sp.invoked,
                  IF car # "unknown" THEN "confirm" ELSE "ask", NoneD)

\* service()
ServiceHandler(i, files, usrs, coll, client, phone, speech, yes_answer, env, du, ds) ==
  LET u    == GetUserData(i, usrs, client, phone, du)
      car  == CarOf(u.val)
      svc  == GetCarServiceData(i, coll, u.client, car, ds)
      dated == svc.val # NoneD /\ "next_service_date" \in DOMAIN svc.val
      text == IF dated
              THEN DueDateText(i, FormatDateForHindiSpeech(svc.val.next_service_date))
              ELSE DueNextMonthText
      spY  == Speak(i, files, text, <<"Would you like to reschedule your service?">>, env)
      spN  == Speak(i, files, WrongNumberText,
                    <<"Sorry for the inconvenience. Have a good day!">>, env)
  IN IF u.raised THEN Raised(files, coll, u.client, "raised_user")
     ELSE IF IsYesCondition(i, yes_answer)
     THEN IF svc.raised THEN Raised(files, coll, svc.client, "raised_record")
          \* format_date_for_hindi_speech(None): AttributeError on date_obj.day
          ELSE IF dated /\ svc.val.next_service_date = NoneD
          THEN Raised(files, coll, svc.client, "raised_format")
          ELSE Outcome(Twiml(<<Gather(RescheduleRoute, 10, <<spY.verb>>)>>),
                       spY.files, coll, svc.client, <<text>>, <<spY.key>>, <<>>,
                       spY.invoked, IF dated THEN "due_date" ELSE "due_next_month", NoneD)
     ELSE Outcome(Twiml(<<spN.verb, Hangup>>), spN.files, coll, u.client,
                  <<WrongNumberText>>, <<spN.key>>, <<>>, spN.invoked, "wrong_number", NoneD)

\* a variant that asks the reschedule question again after a refusal
RescheduleHandlerAsksAgain(i, files, coll, client, speech, yes_answer, env) ==
  LET spY == Speak(i, files, AskDateText(i),
                   <<"Which date would you like to reschedule to?">>, env)
      spN == Speak(i, files, KeepDateText,
                   <<"Alright, service will remain on the current date.">>, env)
  IN IF IsYesCondition(i, yes_answer)
     THEN Outcome(Twiml(<<Gather(RescheduleDateRoute, 15, <<spY.verb>>)>>),
                  spY.files, coll, client, <<AskDateText(i)>>, <<spY.key>>, <<>>,
                  spY.invoked, "ask_date", NoneD)
     ELSE Outcome(Twiml(<<spN.verb, Redirect(RescheduleRoute)>>),
                  spN.files, coll, client, <<KeepDateText>>, <<spN.key>>, <<>>,
                  spN.invoked, "keep_date", NoneD)

\* reschedule()
RescheduleHandler(i, files, coll, client, speech, yes_answer, env) ==
  LET spY == Speak(i, files, AskDateText(i),
                   <<"Which date would you like to reschedule to?">>, env)
      spN == Speak(i, files, KeepDateText,
                   <<"Alright, service will remain on the current date.">>, env)
  IN IF IsYesCondition(i, yes_answer)
     THEN Outcome(Twiml(<<Gather(RescheduleDateRoute, 15, <<spY.verb>>)>>),
                  spY.files, coll, client, <<AskDateText(i)>>, <<spY.key>>, <<>>,
                  spY.invoked, "ask_date", NoneD)
     ELSE Outcome(Twiml(<<spN.verb, Redirect(OfferServicesRoute)>>),
                  spN.files, coll, client, <<KeepDateText>>, <<spN.key>>, <<>>,
                  spN.invoked, "keep_date", NoneD)

\* date_str = extract_dates(SpeechResult); date_obj = parse_date_string(date_str)
ResolvedDate(i, date_answer, addr, now) ==
  ParseDateString(ExtractedDate(i, date_answer, addr), now)

\* reschedule_date(), from the date resolved on
\* a variant that confirms the date of the call, whatever was stored
RescheduleDateHandlerSpeaksToday(i, files, usrs, coll, client, phone, speech, date_obj, now, env, du, dw) ==
  LET u    == GetUserData(i, usrs, client, phone, du)
      w    == UpdateServiceDate(i, coll, u.client, u.val.car_number, date_obj, now, dw)
      coll2 == IF HasCarNumber(u.val) THEN w.coll ELSE coll
      text == RescheduledText(i, FormatDateForHindiSpeech(now))
      sp   == Speak(i, files, text, RescheduledFallback(now), env)
  IN IF u.raised THEN Raised(files, coll, u.client, "raised_user")
     ELSE IF HasCarNumber(u.val) /\ w.raised THEN Raised(files, coll, w.client, "raised_write")
     ELSE Outcome(Twiml(<<sp.verb, Redirect(OfferServicesRoute)>>),
                  sp.files, coll2, u.client, <<text>>, <<sp.key>>,
                  IF HasCarNumber(u.val)
                  THEN <<[op |-> "update_service_date", car |-> u.val.car_number,
                          date |-> date_obj, list |-> <<>>, ok |-> StoreAnswers(i, u.client, dw)]>>
                  ELSE <<>>,
                  sp.invoked, "rescheduled", date_obj)

\* a variant that writes under the vehicle number the prompts use, placeholder included
RescheduleDateHandlerWritesPlaceholder(i, files, usrs, coll, client, phone, speech, date_obj, now, env, du, dw) ==
  LET u    == GetUserData(i, usrs, client, phone, du)
      w    == UpdateServiceDate(i, coll, u.client, CarOf(u.val), date_obj, now, dw)
      coll2 == w.coll
      text == RescheduledText(i, FormatDateForHindiSpeech(date_obj))
      sp   == Speak(i, files, text, RescheduledFallback(date_obj), env)
  IN IF u.raised THEN Raised(files, coll, u.client, "raised_user")
     ELSE IF w.raised THEN Raised(files, coll, w.client, "raised_write")
     ELSE Outcome(Twiml(<<sp.verb, Redirect(OfferServicesRoute)>>),
                  sp.files, coll2, u.client, <<text>>, <<sp.key>>,
                  <<[op |-> "update_service_date", car |-> CarOf(u.val),
                     date |-> date_obj, list |-> <<>>, ok |-> StoreAnswers(i, u.client, dw)]>>,
                  sp.invoked, "rescheduled", date_obj)

RescheduleDateHandler(i, files, usrs, coll, client, phone, speech, date_obj, now, env, du, dw) ==
  LET u    == GetUserData(i, usrs, client, phone, du)
      w    == UpdateServiceDate(i, coll, u.client, u.val.car_number, date_obj, now, dw)
      coll2 == IF HasCarNumber(u.val) THEN w.coll ELSE coll
      text == RescheduledText(i, FormatDateForHindiSpeech(date_obj))
      sp   == Speak(i, files, text, RescheduledFallback(date_obj), env)
  IN IF u.raised THEN Raised(files, coll, u.client, "raised_user")
     ELSE IF HasCarNumber(u.val) /\ w.raised THEN Raised(files, coll, w.client, "raised_write")
     ELSE Outcome(Twiml(<<sp.verb, Redirect(OfferServicesRoute)>>),
                  sp.files, coll2, u.client, <<text>>, <<sp.key>>,
                  IF HasCarNumber(u.val)
                  THEN <<[op |-> "update_service_date", car |-> u.val.car_number,
                          date |-> date_obj, list |-> <<>>, ok |-> StoreAnswers(i, u.client, dw)]>>
                  ELSE <<>>,
                  sp.invoked, "rescheduled", date_obj)

\* variant: offering the add-ons starts from a clean slate, the records are dropped
OfferServicesHandlerResets(i, files, coll, client, env) ==
  LET sp == Speak(i, files, OfferText(i), <<"Would you like any additional services?">>, env)
  IN Outcome(Twiml(<<Gather(HandleServicesRoute, 15, <<sp.verb>>)>>),
             sp.files, [c \in DOMAIN coll |-> NoneD], client, <<OfferText(i)>>, <<sp.key>>,
             <<>>, sp.invoked, "offer", NoneD)

\* offer_services()
OfferServicesHandler(i, files, coll, client, env) ==
  LET sp == Speak(i, files, OfferText(i), <<"Would you like any additional services?">>, env)
  IN Outcome(Twiml(<<Gather(HandleServicesRoute, 15, <<sp.verb>>)>>),
             sp.files, coll, client, <<OfferText(i)>>, <<sp.key>>, <<>>, sp.invoked,
             "offer", NoneD)

\* a variant that takes silence for the whole catalog
ChosenListSilenceAll(i, speech) ==
  IF speech = <<>> THEN SERVICES ELSE ChosenLoop(i, 1, speech, <<>>)

\* the list `chosen` of handle_services
ChosenList(i, speech) == ChosenLoop(i, 1, speech, <<>>)

\* a variant that matches the selection first: a refusal counts only when nothing is chosen
HandleServicesHandlerSelectsFirst(i, files, usrs, coll, client, phone, speech, chosen, now, env1, env2, du, dw) ==
  LET lowered == Lower(speech)
      u    == GetUserData(i, usrs, client, phone, du)
      w    == AddSelectedServices(i, coll, u.client, u.val.car_number, chosen, now, dw)
      writes == HasCarNumber(u.val)
      text == IF chosen # <<>> THEN SelectedText(chosen) ELSE NotUnderstoodText
      n1   == Speak(i, files, OnlyRegularText,
                    <<"Alright, only regular service then. Thank you!">>, env1)
      n2   == Speak(i, n1.files, OnlyRegularFinalText(i),
                    <<"Your service appointment is confirmed. Thank you for choosing us!">>, env2)
      s1   == Speak(i, files, text, <<"Your selected services have been added.">>, env1)
      s2   == Speak(i, s1.files, FinalText(i),
                    <<"Your appointment is confirmed. Thank you and have a great day!">>, env2)
  IN IF IsNegative(lowered) /\ chosen = <<>>
     THEN Outcome(Twiml(<<n1.verb, n2.verb, Hangup>>), n2.files, coll, client,
                  <<OnlyRegularText, OnlyRegularFinalText(i)>>, <<n1.key, n2.key>>, <<>>,
                  n1.invoked \/ n2.invoked, "declined", NoneD)
     ELSE IF chosen # <<>> /\ u.raised THEN Raised(files, coll, u.client, "raised_user")
     ELSE IF chosen # <<>> /\ writes /\ w.raised THEN Raised(files, coll, w.client, "raised_write")
     ELSE Outcome(Twiml(<<s1.verb, s2.verb, Hangup>>), s2.files,
                  IF chosen # <<>> /\ writes THEN w.coll ELSE coll,
                  IF chosen # <<>> THEN u.client ELSE client,
                  <<text, FinalText(i)>>, <<s1.key, s2.key>>,
                  IF chosen # <<>> /\ writes
                  THEN <<[op |-> "add_selected_services", car |-> u.val.car_number,
                          date |-> NoneD, list |-> chosen, ok |-> StoreAnswers(i, u.client, dw)]>>
                  ELSE <<>>,
                  s1.invoked \/ s2.invoked,
                  IF chosen # <<>> THEN "selected" ELSE "not_understood", NoneD)

\* handle_services(), from the list `chosen` on
HandleServicesHandler(i, files, usrs, coll, client, phone, speech, chosen, now, env1, env2, du, dw) ==
  LET lowered == Lower(speech)
      u    == GetUserData(i, usrs, client, phone, du)
      w    == AddSelectedServices(i, coll, u.client, u.val.car_number, chosen, now, dw)
      writes == HasCarNumber(u.val)
      text == IF chosen # <<>> THEN SelectedText(chosen) ELSE NotUnderstoodText
      n1   == Speak(i, files, OnlyRegularText,
                    <<"Alright, only regular service then. Thank you!">>, env1)
      n2   == Speak(i, n1.files, OnlyRegularFinalText(i),
                    <<"Your service appointment is confirmed. Thank you for choosing us!">>, env2)
      s1   == Speak(i, files, text, <<"Your selected services have been added.">>, env1)
      s2   == Speak(i, s1.files, FinalText(i),
                    <<"Your appointment is confirmed. Thank you and have a great day!">>, env2)
  IN IF IsNegative(lowered)
     THEN Outcome(Twiml(<<n1.verb, n2.verb, Hangup>>), n2.files, coll, client,
                  <<OnlyRegularText, OnlyRegularFinalText(i)>>, <<n1.key, n2.key>>, <<>>,
                  n1.invoked \/ n2.invoked, "declined", NoneD)
     ELSE IF chosen # <<>> /\ u.raised THEN Raised(files, coll, u.client, "raised_user")
     ELSE IF chosen # <<>> /\ writes /\ w.raised THEN Raised(files, coll, w.client, "raised_write")
     ELSE Outcome(Twiml(<<s1.verb, s2.verb, Hangup>>), s2.files,
                  IF chosen # <<>> /\ writes THEN w.coll ELSE coll,
                  IF chosen # <<>> THEN u.client ELSE client,
                  <<text, FinalText(i)>>, <<s1.key, s2.key>>,
                  IF chosen # <<>> /\ writes
                  THEN <<[op |-> "add_selected_services", car |-> u.val.car_number,
                          date |-> NoneD, list |-> chosen, ok |-> StoreAnswers(i, u.client, dw)]>>
                  ELSE <<>>,
                  s1.invoked \/ s2.invoked,
                  IF chosen # <<>> THEN "selected" ELSE "not_understood", NoneD)

-----------------------------------------------------------------------------
(* The call: what the caller, the NLU chains and the stores can do *)

\* the longest transcript of a service selection, in words of the vocabulary
MaxWords == 2

\* what the caller may answer to a yes/no or a date question (empty: the timeout)
Transcripts == { <<>>, <<"h", "a", "a", "n">> }

\* the words a caller may use when asked for additional services
Words ==
  { <<"t", "i", "r", "e", " ", "r", "o", "t", "a", "t", "i", "o", "n">>,
    <<"B", "i", "k", "e", " ", "w", "a", "s", "h">>,
    <<"n", "o", "w">>,
    <<"3">>,
    <<"k", "a", "l">>,
    <<"n", "a", "h", "i">> }

\* the transcripts of at most n words, joined by single spaces
RECURSIVE Phrases(_)
Phrases(n) ==
  IF n = 0 THEN { <<>> }
  ELSE Phrases(n - 1) \cup
       { (IF ph = <<>> THEN <<>> ELSE ph \o <<" ">>) \o w : ph \in Phrases(n - 1), w \in Words }

ServiceTranscripts == Phrases(MaxWords)

\* the answers of the yes/no chain
YesAnswers ==
  { <<"T", "r", "u", "e">>, <<" ", "t", "r", "u", "e", "\n">>,
    <<"F", "a", "l", "s", "e">>, Failed }

\* the answers of the date-extraction chain
DateAnswers ==
  { <<>>, <<"N", "o", "n", "e">>, Failed,
    <<"2", "0", "2", "6", "-", "0", "1", "-", "2", "0">>,
    <<"5", " ", "S", "e", "p", "t", "e", "m", "b", "e", "r">> }

\* the addresses a coroutine object may be printed with
Addrs == {"0x7f01", "0x7f02"}
AddrsOf(i) == IF i = "async" THEN Addrs ELSE {"-"}

\* the users document of the called number: none, without car_number, with a null
\* or an empty car_number, or with the car number V1
UserKinds == {"none", "no_car", "null_car", "empty_car", "car"}
UserDoc(phone, kind) ==
  CASE kind = "none"      -> NoneD
    [] kind = "no_car"    -> [phone_number |-> phone]
    [] kind = "null_car"  -> [phone_number |-> phone, car_number |-> NoneS]
    [] kind = "empty_car" -> [phone_number |-> phone, car_number |-> ""]
    [] kind = "car"       -> [phone_number |-> phone, car_number |-> "V1"]

\* the car_services document of V1: none, without next_service_date, with a null
\* one, or with a date
ServiceKinds == {"none", "undated", "null_date", "dated"}
ServiceDoc(car, kind) ==
  CASE kind = "none"      -> NoneD
    [] kind = "undated"   -> [car_number |-> car]
    [] kind = "null_date" -> [car_number |-> car, next_service_date |-> NoneD]
    [] kind = "dated"     -> [car_number |-> car, next_service_date |-> Date(2025, 12, 20),
                              selected_services |-> <<SERVICES[5]>>]

\* what language detection answers and what the backend and the disk do in a call
TtsScenarios ==
  { [cache |-> "cold", lang |-> <<"hi-IN">>, backend |-> "ok", disk |-> "ok"],
    [cache |-> "warm", lang |-> <<"hi-IN">>, backend |-> "ok", disk |-> "ok"],
    [cache |-> "cold", lang |-> <<"hi-IN">>, backend |-> "error", disk |-> "ok"],
    [cache |-> "cold", lang |-> <<>>, backend |-> "ok", disk |-> "ok"],
    [cache |-> "cold", lang |-> Failed, backend |-> "ok", disk |-> "ok"] }

PlainTts == [cache |-> "cold", lang |-> <<"hi-IN">>, backend |-> "ok", disk |-> "ok"]

\* the calls looked at: every kind of record with speech synthesis working, and every
\* behaviour of speech synthesis with the records complete
Scenarios ==
  { [user |-> "car", svc |-> k, tts |-> PlainTts] : k \in ServiceKinds }
    \cup { [user |-> k, svc |-> "dated", tts |-> PlainTts] : k \in UserKinds }
    \cup { [user |-> "car", svc |-> "dated", tts |-> t] : t \in TtsScenarios }

\* the prompts whose wording does not depend on the call
FixedPrompts(i) ==
  { GreetingText(i), AskCarText, DueNextMonthText, WrongNumberText, AskDateText(i),
    KeepDateText, OfferText(i), OnlyRegularText, OnlyRegularFinalText(i),
    NotUnderstoodText, FinalText(i) }

\* a cache directory left by earlier calls
WarmCache(i) ==
  { [name |-> FileName(i, Request(t, <<"hi-IN">>)),
     content |-> AudioContent(Request(t, <<"hi-IN">>))] : t \in FixedPrompts(i) }

SpeakEnv(addr) ==
  [lang |-> tts_env.lang, addr |-> addr, backend |-> tts_env.backend, disk |-> tts_env.disk]

-----------------------------------------------------------------------------
(* The transport: how the telephony service carries a response out *)

\* where the call goes after the verbs from position k on: Play and Say are spoken
\* and the next verb follows; a Gather posts the transcript to its action, or falls
\* through to the next verb when nothing is heard; a Redirect requests its url; a
\* Hangup, or the end of the document, ends the call
RECURSIVE TargetsFrom(_, _)
TargetsFrom(verbs, k) ==
  IF k > Len(verbs) THEN {"End"}
  ELSE CASE verbs[k].verb = "Gather"   -> {verbs[k].action} \cup TargetsFrom(verbs, k + 1)
         [] verbs[k].verb = "Redirect" -> {verbs[k].url}
         [] verbs[k].verb = "Hangup"   -> {"End"}
         [] OTHER                      -> TargetsFrom(verbs, k + 1)

\* a response that is not markup ends the call
NextTargets(response) ==
  IF response.kind = "twiml" THEN TargetsFrom(response.verbs, 1) ELSE {"End"}

\* the conversation state a route serves
StateOf(route) ==
  CASE route = VoiceRoute -> "Greeting"
    [] route \in {CarNumberRoute("sync"), CarNumberRoute("async")} -> "ConfirmVehicle"
    [] route = ServiceRoute -> "ServiceDuePrompt"
    [] route = RescheduleRoute -> "RescheduleConfirm"
    [] route = RescheduleDateRoute -> "RescheduleDateCaptured"
    [] route = OfferServicesRoute -> "OfferServices"
    [] route = HandleServicesRoute -> "HandleServices"
    [] OTHER -> "End"

\* a handler that is in no record-store call
NoStoreCall ==
  [pc |-> "idle", op |-> "none", car |-> "none", date |-> NoneD, list |-> <<>>,
   now |-> NoneD, matched |-> FALSE, seen |-> 0, order |-> 0, addons0 |-> <<>>,
   beside |-> FALSE, val |-> FALSE, raised |-> FALSE, calls |-> 0]

\* what is kept of a call that was applied: the call, its utcnow(), and whether its
\* query came after every earlier write
AppliedCall(o, sequential) ==
  [op |-> o.op, car |-> o.car, date |-> o.date, list |-> o.list, now |-> o.now,
   sequential |-> sequential]

NoneApplied == AppliedCall(NoStoreCall, FALSE)

\* a collection without documents
EmptyColl == [c \in CarNumbers |-> NoneD]

\* no record-store call in progress, none applied yet
NoStore ==
  [ops |-> [p \in {"h1", "h2"} |-> NoStoreCall], dups |-> <<>>, applied |-> 0,
   last |-> NoneApplied, last2 |-> NoneApplied, prev |-> EmptyColl]

NoTurn ==
  [handler |-> "none", phone |-> "none", speech |-> <<>>, answer |-> <<>>,
   response |-> Twiml(<<>>), prompts |-> <<>>, keys |-> <<>>, writes |-> <<>>,
   invoked |-> FALSE, branch |-> "none", date_obj |-> NoneD, next |-> VoiceRoute]

Init ==
  /\ impl \in Impls
  /\ \E sc \in Scenarios :
       /\ users = [p \in Phones |->
                     IF p = "p1" THEN UserDoc(p, sc.user) ELSE UserDoc(p, "none")]
       /\ car_services = [c \in CarNumbers |->
                     IF c = "V1" THEN ServiceDoc(c, sc.svc) ELSE ServiceDoc(c, "none")]
       /\ tts_env = sc.tts
  /\ cache_files = IF tts_env.cache = "warm" THEN WarmCache(impl) ELSE {}
  /\ mongo_client = NoneS
  /\ today = Date(2025, 12, 15)
  /\ call = [phone |-> "p1", at |-> VoiceRoute, path |-> <<>>]
  /\ turn = NoTurn
  /\ tts = <<>>
  /\ store = NoStore

\* the request for `route` is answered with outcome o, and the transport carries the
\* response out
Answer(route, speech, answer, o) ==
  /\ cache_files' = o.files
  /\ car_services' = o.coll
  /\ mongo_client' = o.client
  /\ \E nxt \in NextTargets(o.response) :
       /\ turn' = [handler |-> route, phone |-> call.phone, speech |-> speech,
                   answer |-> answer, response |-> o.response, prompts |-> o.prompts,
                   keys |-> o.keys, writes |-> o.writes, invoked |-> o.invoked,
                   branch |-> o.branch, date_obj |-> o.date_obj, next |-> nxt]
       /\ call' = [call EXCEPT !.at = nxt, !.path = Append(@, StateOf(route))]
  /\ UNCHANGED <<impl, users, today, tts_env, tts, store>>

Voice ==
  /\ call.at = VoiceRoute
  /\ \E addr \in AddrsOf(impl) :
       \E o \in {VoiceHandler(impl, cache_files, car_services, mongo_client, SpeakEnv(addr))} :
         Answer(VoiceRoute, <<>>, <<>>, o)

CarNumber ==
  /\ call.at = CarNumberRoute(impl)
  /\ \E addr \in AddrsOf(impl), du \in DbOutcomes :
       \E o \in {CarNumberHandler(impl, cache_files, users, car_services, mongo_client,
                               call.phone, SpeakEnv(addr), du)} :
         Answer(CarNumberRoute(impl), <<>>, <<>>, o)

Service ==
  /\ call.at = ServiceRoute
  /\ \E speech \in Transcripts, yes_answer \in YesAnswers, addr \in AddrsOf(impl),
        du \in DbOutcomes, ds \in DbOutcomes :
       \E o \in {ServiceHandler(impl, cache_files, users, car_services, mongo_client,
                             call.phone, speech, yes_answer, SpeakEnv(addr), du, ds)} :
         Answer(ServiceRoute, speech, yes_answer, o)

Reschedule ==
  /\ call.at = RescheduleRoute
  /\ \E speech \in Transcripts, yes_answer \in YesAnswers, addr \in AddrsOf(impl) :
       \E o \in {RescheduleHandler(impl, cache_files, car_services, mongo_client,
                                speech, yes_answer, SpeakEnv(addr))} :
         Answer(RescheduleRoute, speech, yes_answer, o)

RescheduleDate ==
  /\ call.at = RescheduleDateRoute
  /\ \E date_answer \in DateAnswers, addr \in AddrsOf(impl) :
     \E date_obj \in {ResolvedDate(impl, date_answer, addr, today)} :
     \E speech \in Transcripts, du \in DbOutcomes, dw \in DbOutcomes :
       \E o \in {RescheduleDateHandler(impl, cache_files, users, car_services, mongo_client,
                                    call.phone, speech, date_obj, today,
                                    SpeakEnv(addr), du, dw)} :
         Answer(RescheduleDateRoute, speech, date_answer, o)

OfferServices ==
  /\ call.at = OfferServicesRoute
  /\ \E addr \in AddrsOf(impl) :
       \E o \in {OfferServicesHandler(impl, cache_files, car_services, mongo_client,
                                   SpeakEnv(addr))} :
         Answer(OfferServicesRoute, <<>>, <<>>, o)

\* handle_services calls the store when nothing is declined and something is chosen
StoreCalled(speech, chosen) == ~IsNegative(Lower(speech)) /\ chosen # <<>>

StoreDraws(called) == IF called THEN DbOutcomes ELSE {"ok"}

HandleServices ==
  /\ call.at = HandleServicesRoute
  /\ \E speech \in ServiceTranscripts :
     \E chosen \in {ChosenList(impl, Lower(speech))} :
     \E addr \in AddrsOf(impl), du \in StoreDraws(StoreCalled(speech, chosen)),
        dw \in StoreDraws(StoreCalled(speech, chosen)) :
       \E o \in {HandleServicesHandler(impl, cache_files, users, car_services, mongo_client,
                                    call.phone, speech, chosen, today, SpeakEnv(addr),
                                    SpeakEnv(addr), du, dw)} :
         Answer(HandleServicesRoute, speech, <<>>, o)

Next ==
  \/ Voice
  \/ CarNumber
  \/ Service
  \/ Reschedule
  \/ RescheduleDate
  \/ OfferServices
  \/ HandleServices

Spec == Init /\ [][Next]_vars

-----------------------------------------------------------------------------
(* Properties of the call flow *)

RoutesOf(i) ==
  {VoiceRoute, CarNumberRoute(i), ServiceRoute, RescheduleRoute, RescheduleDateRoute,
   OfferServicesRoute, HandleServicesRoute}

\* the verbs of a response, those nested in a Gather included
AllVerbs(response) ==
  {response.verbs[k] : k \in DOMAIN response.verbs}
    \cup UNION { {response.verbs[k].nested[j] : j \in DOMAIN response.verbs[k].nested} :
                 k \in {n \in DOMAIN response.verbs : response.verbs[n].verb = "Gather"} }

HasVerb(response, kind) == \E v \in AllVerbs(response) : v.verb = kind
HasSpeak(response) == \E v \in AllVerbs(response) : IsSpeak(v)

\* the action targets a response names: Gather actions and Redirect urls
NamedTargets(response) ==
  {v.action : v \in {x \in AllVerbs(response) : x.verb = "Gather"}}
    \cup {v.url : v \in {x \in AllVerbs(response) : x.verb = "Redirect"}}

StateOrder ==
  <<"Greeting", "ConfirmVehicle", "ServiceDuePrompt", "RescheduleConfirm",
    "RescheduleDateCaptured", "OfferServices", "HandleServices", "End">>

Rank(state) == CHOOSE k \in DOMAIN StateOrder : StateOrder[k] = state

\* t is the state after s, or s is RescheduleConfirm and t skips RescheduleDateCaptured
Follows(s, t) ==
  \/ Rank(t) = Rank(s) + 1
  \/ s = "RescheduleConfirm" /\ t = "OfferServices"

\* C1: a call starts at Greeting and visits the states in the order Greeting,
\* ConfirmVehicle, ServiceDuePrompt, RescheduleConfirm, RescheduleDateCaptured,
\* OfferServices, HandleServices; every target a response names is a route of the
\* implementation that serves the next state; only RescheduleDateCaptured is skipped,
\* and only from RescheduleConfirm
C1_StatesInOrder ==
  /\ call.path # <<>> => call.path[1] = "Greeting"
  /\ \A k \in 2..Len(call.path) : Follows(call.path[k - 1], call.path[k])
  /\ call.at \in RoutesOf(impl) \cup {"End"}
  /\ turn.handler # "none" =>
       \A t \in NamedTargets(turn.response) :
         /\ t \in RoutesOf(impl)
         /\ StateOf(t) # "End"
         /\ Follows(StateOf(turn.handler), StateOf(t))

\* a call that went through all seven states and ended
C1_FullCallEnded ==
  /\ call.at = "End"
  /\ call.path = SubSeq(StateOrder, 1, 7)

\* C2 (as stated): every turn is answered with markup that speaks at least once
C2_AlwaysMarkup ==
  turn.handler # "none" => turn.response.kind = "twiml" /\ HasSpeak(turn.response)

\* service() of the blocking implementation answered a caller who said yes, whose
\* service record holds a null next_service_date, with the JSON error body
C2_NullDueDateIsServerError ==
  /\ impl = "sync"
  /\ turn.handler = ServiceRoute
  /\ IsYes(turn.answer)
  /\ FindOne(car_services, "V1") # NoneD
  /\ "next_service_date" \in DOMAIN car_services["V1"]
  /\ car_services["V1"].next_service_date = NoneD
  /\ turn.response = ServerError

\* C3 (as stated): at ServiceDuePrompt a transcript classified as negative gets a
\* response with a hang-up and with no Gather and no Redirect
C3_NegativeHangsUp ==
  (turn.handler = ServiceRoute /\ ~IsYes(turn.answer)) =>
    /\ turn.response.kind = "twiml"
    /\ HasVerb(turn.response, "Hangup")
    /\ ~HasVerb(turn.response, "Gather")
    /\ ~HasVerb(turn.response, "Redirect")

\* service() of the async implementation answered a transcript classified as
\* negative with a Gather for the reschedule question
C3_AsyncNegativeGathers ==
  /\ impl = "async"
  /\ turn.handler = ServiceRoute
  /\ ~IsYes(turn.answer)
  /\ turn.response.kind = "twiml"
  /\ HasVerb(turn.response, "Gather")
  /\ ~HasVerb(turn.response, "Hangup")

\* the users document names a vehicle: the field is there and is neither null nor empty
KnownVehicle(user) ==
  /\ user # NoneD
  /\ "car_number" \in DOMAIN user
  /\ user.car_number \notin {NoneS, ""}

\* C4 (as stated): at ConfirmVehicle a callee without a known vehicle id is asked to
\* state it, and is never asked to confirm a value
C4_UnknownVehicleIsAsked ==
  (turn.handler = CarNumberRoute(impl) /\ turn.response.kind = "twiml"
     /\ ~KnownVehicle(users[turn.phone])) =>
    turn.prompts = <<AskCarText>>

\* car_number() asked a callee whose car_number is null to confirm the number "None"
C4_NullVehicleConfirmed ==
  /\ turn.handler = CarNumberRoute(impl)
  /\ users[turn.phone] # NoneD
  /\ "car_number" \in DOMAIN users[turn.phone]
  /\ users[turn.phone].car_number = NoneS
  /\ turn.prompts = <<ConfirmCarText(impl, NoneS)>>

TireRotation == <<"t", "i", "r", "e", " ", "r", "o", "t", "a", "t", "i", "o", "n">>

\* the add_selected_services calls of the turn
SelectionWrites == {k \in DOMAIN turn.writes : turn.writes[k].op = "add_selected_services"}

\* the transcript holds the index or a word of the name of a catalog entry other
\* than entry k
NamesAnotherEntry(speech, k) ==
  \E j \in DOMAIN SERVICES \ {k} :
    \/ Contains(speech, IndexStr(j))
    \/ \E w \in SeqToSet(Split(Lower(SERVICES[j]))) : Contains(speech, w)

\* the transcript holds one of the negative-intent keywords
HoldsNegativeKeyword(speech) ==
  \E k \in DOMAIN NegativeKeywords : Contains(speech, NegativeKeywords[k])

\* C5 (as stated): for a transcript containing "tire rotation", the selection passed
\* to add_selected_services is exactly the entry "Tire rotation"
C5_ExactlyTireRotation ==
  (turn.handler = HandleServicesRoute /\ Contains(Lower(turn.speech), TireRotation)) =>
    \A k \in SelectionWrites : turn.writes[k].list = <<SERVICES[3]>>

\* C5 (amended): for a transcript that contains "tire rotation", no negative-intent
\* keyword, and neither the index nor a name word of another catalog entry, the
\* selection is exactly the entry "Tire rotation", once: it is the list the
\* confirmation reads out and the list every add_selected_services call is given
C5_ExactlyTireRotationWhenAlone ==
  (/\ turn.handler = HandleServicesRoute
   /\ Contains(Lower(turn.speech), TireRotation)
   /\ ~HoldsNegativeKeyword(Lower(turn.speech))
   /\ ~NamesAnotherEntry(Lower(turn.speech), 3)) =>
    /\ turn.branch \in {"selected", "raised_user"}
    /\ turn.branch = "selected" => turn.prompts[1] = SelectedText(<<SERVICES[3]>>)
    /\ \A k \in SelectionWrites : turn.writes[k].list = <<SERVICES[3]>>

\* add_selected_services was called with exactly "Tire rotation" for a transcript
\* that names it twice
C5_TireRotationWritten ==
  /\ turn.handler = HandleServicesRoute
  /\ turn.speech = TireRotation \o <<" ">> \o TireRotation
  /\ turn.writes # <<>>
  /\ turn.writes[1].op = "add_selected_services"
  /\ turn.writes[1].list = <<SERVICES[3]>>
  /\ turn.writes[1].ok
  /\ SERVICES[3] \in SeqToSet(car_services["V1"].selected_services)

\* C6: at HandleServices with a non-empty selection, the add_selected_services write
\* never ends the turn with an exception, and when it fails the turn still answers
\* with the confirmation of the selection, the final message and a hang-up, as markup
C6_WriteFailureStillConfirms ==
  /\ turn.handler = HandleServicesRoute => turn.branch # "raised_write"
  /\ (/\ turn.handler = HandleServicesRoute
      /\ SelectionWrites # {}
      /\ \E k \in SelectionWrites : ~turn.writes[k].ok) =>
       /\ turn.response.kind = "twiml"
       /\ Len(turn.response.verbs) = 3
       /\ IsSpeak(turn.response.verbs[1])
       /\ IsSpeak(turn.response.verbs[2])
       /\ turn.response.verbs[3] = Hangup
       /\ turn.prompts = <<SelectedText(turn.writes[1].list), FinalText(impl)>>
       /\ turn.next = "End"

\* a turn whose add_selected_services call failed and which answered with markup
C6_WriteFailed ==
  /\ turn.handler = HandleServicesRoute
  /\ turn.writes # <<>>
  /\ turn.writes[1].op = "add_selected_services"
  /\ turn.writes[1].list # <<>>
  /\ ~turn.writes[1].ok
  /\ turn.response.kind = "twiml"

-----------------------------------------------------------------------------
(* generate_speech step by step, called by concurrent handlers *)

\* the handlers (threads of the blocking server, tasks of the async one) that call
\* generate_speech
Procs == {"h1", "h2"}

\* the calls a handler makes in a run
MaxCalls == 2

TtsTexts == {<<"Namaste">>, <<" ">>}

\* variant: the except clause covers only the building of the request
CaughtOnlyPrepare(stage) == stage = "prepare"

\* the exception handling of generate_speech: `if not text.strip()` is before the
\* try; building the request, the backend call, open() and write() are inside it,
\* and its except clause returns None
Caught(stage) == stage \in {"prepare", "synthesize", "open", "write"}

\* clear_cache(): the blocking client removes every speech_ file; the async
\* client's method has no body
ClearCacheOp(i, files) == IF i = "sync" THEN {} ELSE files

\* the arguments of a call: made with a language code and an encoding given as
\* strings, or made by generate_tts_and_play / generate_tts_for_gather with the
\* language detected for the text
DirectCalls ==
  { [via |-> "direct", detected |-> <<>>,
     req |-> [Request(<<"Namaste">>, l) EXCEPT !.audio_encoding = e]] :
      l \in {<<"hi-IN">>, <<"xx-XX">>}, e \in {<<"MP3">>} }
  \cup { [via |-> "direct", detected |-> <<>>,
          req |-> [Request(<<"Namaste">>, <<"hi-IN">>) EXCEPT !.audio_encoding = <<"FLAC">>]],
         [via |-> "direct", detected |-> <<>>, req |-> Request(<<" ">>, <<"hi-IN">>)] }

HandlerCalls(i) ==
  { [via |-> "handler", detected |-> d, req |-> Request(<<"Namaste">>, LanguageFor(i, d, a))] :
      d \in {<<"hi-IN">>, <<>>, Failed}, a \in AddrsOf(i) }

NoCall ==
  [pc |-> "idle", via |-> "none", detected |-> <<>>, req |-> Request(<<>>, NoneQ),
   ref |-> NoneQ, invoked |-> FALSE, failed |-> "none", raised |-> FALSE,
   existed |-> FALSE,
   repeat |-> FALSE, prev_ref |-> NoneQ, cleared |-> FALSE, orphan |-> FALSE, calls |-> 0]

InitTTS ==
  /\ impl \in Impls
  /\ users = [p \in Phones |-> NoneD]
  /\ car_services = [c \in CarNumbers |-> NoneD]
  /\ cache_files = {}
  /\ mongo_client = NoneS
  /\ today = Date(2025, 12, 15)
  /\ tts_env = PlainTts
  /\ call = [phone |-> "p1", at |-> "End", path |-> <<>>]
  /\ turn = NoTurn
  /\ tts = [p \in Procs |-> NoCall]
  /\ store = NoStore

\* the call of p ends: with the reference, or with None when the except clause
\* caught the failure of `stage`, or with the exception
Returns(p, ref) == [tts EXCEPT ![p].pc = "done", ![p].ref = ref]
Fails(p, stage) ==
  [tts EXCEPT ![p].pc = "done", ![p].ref = NoneQ, ![p].failed = stage,
              ![p].raised = ~Caught(stage)]

\* generate_speech up to the request to the backend: the empty-text return, the
\* cache key, the cache check, the voice parameters and the audio configuration
TtsCall(p) ==
  /\ tts[p].pc \in {"idle", "done"}
  /\ tts[p].calls < MaxCalls
  /\ \E c \in DirectCalls \cup HandlerCalls(impl) :
       LET hit   == GetCachedFile(impl, cache_files, c.req)
           begun == [tts[p] EXCEPT
                       !.via = c.via, !.detected = c.detected, !.req = c.req,
                       !.ref = NoneQ, !.invoked = FALSE, !.failed = "none",
                       !.raised = FALSE,
                       !.existed = FileExists(cache_files, FileName(impl, c.req)),
                       !.repeat = (tts[p].pc = "done" /\ tts[p].req = c.req
                                     /\ ~tts[p].cleared),
                       !.prev_ref = IF tts[p].pc = "done" /\ tts[p].req = c.req
                                       /\ ~tts[p].cleared
                                    THEN tts[p].ref ELSE NoneQ,
                       !.cleared = FALSE, !.orphan = FALSE, !.calls = @ + 1]
       IN tts' = [tts EXCEPT ![p] =
                    IF Strip(c.req.text) = <<>> THEN [begun EXCEPT !.pc = "done"]
                    ELSE IF hit # NoneQ THEN [begun EXCEPT !.pc = "done", !.ref = hit]
                    ELSE IF ~PrepareOk(c.req)
                    THEN [begun EXCEPT !.pc = "done", !.failed = "prepare",
                                       !.raised = ~Caught("prepare")]
                    ELSE [begun EXCEPT !.pc = "miss", !.invoked = TRUE]]
  /\ UNCHANGED <<impl, users, car_services, cache_files, mongo_client, today, tts_env,
                 call, turn, store>>

\* client.synthesize_speech answers: with audio, or with an error
TtsSynthesize(p) ==
  /\ tts[p].pc = "miss"
  /\ \E backend \in {"ok", "error"} :
       tts' = IF backend = "ok" /\ BackendAccepts(tts[p].req)
              THEN [tts EXCEPT ![p].pc = "synth"]
              ELSE Fails(p, "synthesize")
  /\ UNCHANGED <<impl, users, car_services, cache_files, mongo_client, today, tts_env,
                 call, turn, store>>

\* open(filepath, 'wb')
TtsOpen(p) ==
  /\ tts[p].pc = "synth"
  /\ \E disk \in {"ok", "open_fails"} :
       IF disk = "ok"
       THEN /\ cache_files' = OpenTruncate(cache_files, FileName(impl, tts[p].req))
            /\ tts' = [tts EXCEPT ![p].pc = "open"]
       ELSE /\ cache_files' = cache_files
            /\ tts' = Fails(p, "open")
  /\ UNCHANGED <<impl, users, car_services, mongo_client, today, tts_env, call, turn, store>>

\* f.write(response.audio_content), close, and the return of the reference; a
\* file removed while it was open is written to without coming back
TtsWrite(p) ==
  /\ tts[p].pc = "open"
  /\ \E disk \in {"ok", "write_fails"} :
       LET name == FileName(impl, tts[p].req)
           audio == AudioContent(tts[p].req)
           n == IF disk = "ok" THEN Len(audio) ELSE 1
       IN /\ cache_files' = IF tts[p].orphan THEN cache_files
                            ELSE WriteChunks(cache_files, name, audio, n)
          /\ tts' = IF disk = "ok" THEN Returns(p, MissRef(name)) ELSE Fails(p, "write")
  /\ UNCHANGED <<impl, users, car_services, mongo_client, today, tts_env, call, turn, store>>

\* clear_cache(), run out of band
ClearCache ==
  /\ cache_files # {}
  /\ cache_files' = ClearCacheOp(impl, cache_files)
  /\ tts' = [p \in Procs |->
               [tts[p] EXCEPT !.cleared = TRUE,
                              !.orphan = @ \/ (impl = "sync" /\ tts[p].pc = "open")]]
  /\ UNCHANGED <<impl, users, car_services, mongo_client, today, tts_env, call, turn, store>>

NextTTS ==
  \/ \E p \in Procs : TtsCall(p)
  \/ \E p \in Procs : TtsSynthesize(p)
  \/ \E p \in Procs : TtsOpen(p)
  \/ \E p \in Procs : TtsWrite(p)
  \/ ClearCache

SpecTTS == InitTTS /\ [][NextTTS]_vars

-----------------------------------------------------------------------------
(* Properties of generate_speech and the cache *)

\* C7 (as stated): a generate_speech call that follows, in the same handler and with
\* no clear_cache in between, a call with the same arguments that returned a
\* reference, returns the same reference and does not invoke the backend
C7_SecondCallSameReference ==
  \A p \in Procs :
    (tts[p].pc = "done" /\ tts[p].repeat /\ tts[p].prev_ref # NoneQ) =>
      /\ tts[p].ref = tts[p].prev_ref
      /\ ~tts[p].invoked

\* the async client returned, for the same arguments, first the reference of the
\* file it wrote and then a different reference for the cache hit
C7_AsyncHitReferenceDiffers ==
  \E p \in Procs :
    /\ impl = "async"
    /\ tts[p].pc = "done"
    /\ tts[p].repeat
    /\ tts[p].prev_ref = MissRef(FileName(impl, tts[p].req))
    /\ tts[p].ref = HitRef(impl, FileName(impl, tts[p].req))
    /\ tts[p].ref # tts[p].prev_ref
    /\ ~tts[p].invoked

\* C8: generate_speech never raises: every call that has ended returned None or the
\* reference of its file, and a call in which building the request, the backend,
\* open() or write() failed returned None
C8_NeverRaises ==
  \A p \in Procs :
    /\ ~tts[p].raised
    /\ tts[p].pc = "done" =>
         tts[p].ref \in {NoneQ, MissRef(FileName(impl, tts[p].req)),
                         HitRef(impl, FileName(impl, tts[p].req))}
    /\ (tts[p].pc = "done" /\ tts[p].failed # "none") => tts[p].ref = NoneQ

\* a call that reached the backend and ended with None, no file written
C8_BackendErrorReturnedNone ==
  \E p \in Procs :
    /\ tts[p].pc = "done"
    /\ tts[p].invoked
    /\ tts[p].failed = "synthesize"
    /\ tts[p].ref = NoneQ
    /\ ~tts[p].raised

\* C9 (as stated): two handler calls that speak the same text with the same detected
\* language resolve to the same cache key
C9_SameTextSameLanguageSameKey ==
  \A p, q \in Procs :
    (/\ tts[p].via = "handler" /\ tts[q].via = "handler"
     /\ tts[p].req.text = tts[q].req.text
     /\ tts[p].detected = tts[q].detected) =>
      GenerateCacheKey(tts[p].req) = GenerateCacheKey(tts[q].req)

\* two handlers of the async implementation spoke the same text with the same
\* detected language under different cache keys
C9_AsyncKeysDiffer ==
  \E p, q \in Procs :
    /\ impl = "async"
    /\ tts[p].via = "handler" /\ tts[q].via = "handler"
    /\ tts[p].req.text = tts[q].req.text
    /\ tts[p].detected = <<"hi-IN">> /\ tts[q].detected = <<"hi-IN">>
    /\ GenerateCacheKey(tts[p].req) # GenerateCacheKey(tts[q].req)

\* the file holds the whole audio of a request
Complete(f) == Len(f.content) = Len(AudioContent(Request(<<>>, NoneQ)))

\* a step of clear_cache
ClearStep == cache_files' = ClearCacheOp(impl, cache_files) /\ \A p \in Procs : tts'[p].cleared

\* C10 (as stated): once an artifact exists, no step but clear_cache rewrites,
\* truncates or removes it
C10_WriteOnce ==
  [][ClearStep \/ \A f \in cache_files : Complete(f) => f \in cache_files']_vars

\* C10 (amended): once an artifact exists, it is rewritten, truncated or removed only
\* by clear_cache or by a generate_speech call whose cache check took place before
\* the artifact existed (a concurrent miss on the same key); a call whose cache check
\* found the file never opens it
C10_WriteOnceAfterCheck ==
  [][/\ \A p \in Procs : tts'[p].pc \in {"miss", "synth", "open"} => ~tts'[p].existed
     /\ \A f \in cache_files :
          (Complete(f) /\ f \notin cache_files') =>
            \/ ClearStep
            \/ \E p \in Procs :
                 /\ tts[p].pc \in {"synth", "open"}
                 /\ tts'[p] # tts[p]
                 /\ ~tts[p].existed
                 /\ FileName(impl, tts[p].req) = f.name]_vars

\* an artifact written by one handler was found by the cache check of a call of the
\* other handler, which returned its reference without the backend
C10_HitOnArtifact ==
  \E p, q \in Procs :
    /\ p # q
    /\ tts[q].pc = "done" /\ tts[q].ref = MissRef(FileName(impl, tts[q].req))
    /\ tts[p].pc = "done" /\ tts[p].existed /\ ~tts[p].invoked
    /\ tts[p].req = tts[q].req
    /\ tts[p].ref # NoneQ
    /\ \E f \in cache_files : f.name = FileName(impl, tts[p].req) /\ Complete(f)

\* C11: when two handlers both take a cache miss on the same key, and both synthesize
\* and write with no failure and no clear_cache in between, the file left once both
\* have returned holds exactly the audio a single writer writes, whatever the order
\* of their cache checks, backend calls, open() and write() steps
C11_RacingWritersSameArtifact ==
  \A p, q \in Procs :
    (/\ p # q
     /\ tts[p].pc = "done" /\ tts[q].pc = "done"
     /\ tts[p].req = tts[q].req
     /\ tts[p].invoked /\ tts[q].invoked
     /\ ~tts[p].existed /\ ~tts[q].existed
     /\ tts[p].failed = "none" /\ tts[q].failed = "none"
     /\ ~tts[p].cleared /\ ~tts[q].cleared) =>
      /\ FileExists(cache_files, FileName(impl, tts[p].req))
      /\ FileContent(cache_files, FileName(impl, tts[p].req)) = AudioContent(tts[p].req)
      /\ Cardinality({f \in cache_files : f.name = FileName(impl, tts[p].req)}) = 1

\* two handlers missed on the same key, both called the backend and both wrote the
\* file, and both returned the reference of the one file
C11_BothMissedBothWrote ==
  \E p, q \in Procs :
    /\ p # q
    /\ tts[p].pc = "done" /\ tts[q].pc = "done"
    /\ tts[p].req = tts[q].req
    /\ tts[p].invoked /\ tts[q].invoked
    /\ ~tts[p].existed /\ ~tts[q].existed
    /\ tts[p].ref = MissRef(FileName(impl, tts[p].req))
    /\ tts[q].ref = MissRef(FileName(impl, tts[q].req))
    /\ ~tts[p].cleared /\ ~tts[q].cleared
    /\ FileContent(cache_files, FileName(impl, tts[p].req)) = AudioContent(tts[p].req)

-----------------------------------------------------------------------------
(* update_service_date and add_selected_services called by concurrent handlers.  *)
(* The server carries out update_one(filter, update, upsert=True) in two phases: *)
(* the query for a document matching the filter, then the update of the document *)
(* matched, or the insert of a new one when none was matched.  The collection    *)
(* has no unique index on car_number, so an insert never fails on a duplicate.   *)

\* the store calls the handlers make in a run
MaxStoreCalls == 3

\* datetime.datetime.utcnow() of the k-th store call of a run: a later value each time
Instant(k) == AddDays(Date(2025, 12, 15), k)

StoreDates == {Date(2026, 1, 20), Date(2026, 2, 10)}

StoreLists == { <<SERVICES[3]>>, <<SERVICES[5], SERVICES[3]>>, << <<" ">> >> }

StoreCalls ==
  { [op |-> "update_service_date", car |-> "V1", date |-> d, list |-> <<>>] : d \in StoreDates }
    \cup { [op |-> "add_selected_services", car |-> "V1", date |-> NoneD, list |-> l] :
           l \in StoreLists }

\* the call as the mongofetch function carries it out on collection coll
StoreCallOn(i, coll, client, c, now, outcome) ==
  IF c.op = "update_service_date"
  THEN UpdateServiceDate(i, coll, client, c.car, c.date, now, outcome)
  ELSE AddSelectedServices(i, coll, client, c.car, c.list, now, outcome)

\* the function gets as far as sending update_one, and the store takes the request
StoreSends(i, client, c, outcome) ==
  /\ ~ClientRaises(i, client, outcome)
  /\ StoreAnswers(i, client, outcome)
  /\ c.op = "add_selected_services" => NormalizeServices(c.list) # <<>>

\* the selected_services of the document find_one gives for car (none: the empty set)
AddOns(coll, car) ==
  IF FindOne(coll, car) = NoneD THEN <<>> ELSE DictGet(coll[car], "selected_services", <<>>)

\* the next_service_date of the document find_one gives for car
DueDate(coll, car) ==
  IF FindOne(coll, car) = NoneD THEN [absent |-> TRUE]
  ELSE DictGet(coll[car], "next_service_date", [absent |-> TRUE])

\* the documents of car_services with this car_number: the one find_one gives, and
\* those inserted beside it
RecordCount(coll, dups, car) ==
  (IF FindOne(coll, car) = NoneD THEN 0 ELSE 1)
    + Cardinality({k \in DOMAIN dups : dups[k].car_number = car})

InitStore ==
  /\ impl \in Impls
  /\ users = [p \in Phones |-> NoneD]
  /\ \E k \in ServiceKinds :
       car_services = [c \in CarNumbers |->
                         IF c = "V1" THEN ServiceDoc(c, k) ELSE ServiceDoc(c, "none")]
  /\ cache_files = {}
  /\ mongo_client = NoneS
  /\ today = Date(2025, 12, 15)
  /\ tts_env = PlainTts
  /\ call = [phone |-> "p1", at |-> "End", path |-> <<>>]
  /\ turn = NoTurn
  /\ tts = <<>>
  /\ store = NoStore

\* the function up to the server's query phase: the client, the normalisation of the
\* list, utcnow() for updated_at, and whether a document matches the filter
StoreQuery(p) ==
  /\ store.ops[p].pc \in {"idle", "done"}
  /\ store.ops["h1"].calls + store.ops["h2"].calls < MaxStoreCalls
  /\ \E c \in StoreCalls, outcome \in DbOutcomes :
       LET now == Instant(1 + store.ops["h1"].calls + store.ops["h2"].calls)
           r == StoreCallOn(impl, car_services, mongo_client, c, now, outcome)
           begun == [NoStoreCall EXCEPT
                       !.op = c.op, !.car = c.car, !.date = c.date, !.list = c.list,
                       !.now = now, !.seen = store.applied,
                       !.addons0 = AddOns(car_services, c.car),
                       !.matched = FindOne(car_services, c.car) # NoneD,
                       !.calls = store.ops[p].calls + 1]
       IN /\ mongo_client' = r.client
          /\ store' = [store EXCEPT
                         !.ops[p] = IF StoreSends(impl, mongo_client, c, outcome)
                                    THEN [begun EXCEPT !.pc = "query"]
                                    ELSE [NoStoreCall EXCEPT
                                            !.pc = "done", !.op = c.op, !.raised = r.raised,
                                            !.calls = store.ops[p].calls + 1]]
  /\ UNCHANGED <<impl, users, car_services, cache_files, today, tts_env, call, turn, tts>>

\* the server's write phase and the return of the function: the document matched is
\* updated; with none matched a document is inserted, beside the one a concurrent
\* upsert has inserted meanwhile if there is one
StoreApply(p) ==
  /\ store.ops[p].pc = "query"
  /\ LET o == store.ops[p]
         beside == ~o.matched /\ FindOne(car_services, o.car) # NoneD
         r == StoreCallOn(impl, IF beside THEN EmptyColl ELSE car_services,
                          mongo_client, o, o.now, "ok")
         done == [o EXCEPT !.pc = "done", !.val = r.val, !.order = store.applied + 1,
                           !.beside = beside]
     IN /\ car_services' = IF beside THEN car_services ELSE r.coll
        /\ store' = [store EXCEPT
                       !.ops[p] = done,
                       !.dups = IF beside THEN Append(@, r.coll[o.car]) ELSE @,
                       !.applied = @ + 1,
                       !.last = AppliedCall(o, o.seen = store.applied), !.last2 = store.last,
                       !.prev = car_services]
  /\ UNCHANGED <<impl, users, cache_files, mongo_client, today, tts_env, call, turn, tts>>

NextStore ==
  \/ \E p \in Procs : StoreQuery(p)
  \/ \E p \in Procs : StoreApply(p)

SpecStore == InitStore /\ [][NextStore]_vars

-----------------------------------------------------------------------------
(* Properties of the record-store calls *)

\* the calls of p and q overlapped: each was queried before the other was applied
Overlapped(p, q) ==
  /\ store.ops[p].seen < store.ops[q].order
  /\ store.ops[q].seen < store.ops[p].order

\* p was in update_service_date and its update_one was applied
AppliedUpdate(p) ==
  /\ store.ops[p].pc = "done"
  /\ store.ops[p].op = "update_service_date"
  /\ store.ops[p].order > 0

\* C12 (as stated): when two handlers concurrently upsert the due date of the same
\* vehicle, after both have returned there is one record of the vehicle, its due
\* date is that of the write applied last, and its add-on set is the one it had
C12_OneRecordLastWriteWins ==
  \A p, q \in Procs :
    (/\ p # q
     /\ AppliedUpdate(p) /\ AppliedUpdate(q)
     /\ store.ops[p].car = store.ops[q].car
     /\ Overlapped(p, q)) =>
      /\ RecordCount(car_services, store.dups, store.ops[p].car) = 1
      /\ DueDate(car_services, store.ops[p].car) = store.last.date
      /\ store.ops[p].seen >= store.ops[q].seen =>
           AddOns(car_services, store.ops[p].car) = store.ops[p].addons0

\* two concurrent update_service_date calls for a vehicle without a record have left
\* two records of the vehicle, and find_one gives the one with the date written first
C12_TwoRecordsForOneVehicle ==
  \E p, q \in Procs :
    /\ p # q
    /\ AppliedUpdate(p) /\ AppliedUpdate(q)
    /\ store.ops[p].car = store.ops[q].car
    /\ Overlapped(p, q)
    /\ store.ops[p].order < store.ops[q].order
    /\ store.ops[p].date # store.ops[q].date
    /\ RecordCount(car_services, store.dups, store.ops[p].car) = 2
    /\ DueDate(car_services, store.ops[p].car) = store.ops[p].date

-----------------------------------------------------------------------------
(* Properties of the handlers when a collaborator fails *)

\* C13 (as stated): a failure of the yes/no chain counts as the answer no, and the
\* turn completes: service() answers with the apology and a hang-up, reschedule()
\* answers with the keep-the-date message and a redirect to /offer-services, with
\* no Gather for a date
C13_ClassifierFailureIsNo ==
  /\ (turn.handler = ServiceRoute /\ turn.answer = Failed) =>
       /\ turn.response.kind = "twiml"
       /\ turn.prompts = <<WrongNumberText>>
       /\ Len(turn.response.verbs) = 2
       /\ IsSpeak(turn.response.verbs[1])
       /\ turn.response.verbs[2] = Hangup
  /\ (turn.handler = RescheduleRoute /\ turn.answer = Failed) =>
       /\ turn.response.kind = "twiml"
       /\ turn.prompts = <<KeepDateText>>
       /\ NamedTargets(turn.response) = {OfferServicesRoute}
       /\ ~HasVerb(turn.response, "Gather")

\* reschedule() of the async implementation, with the yes/no chain failing, asked the
\* caller for a date
C13_AsyncFailureAsksDate ==
  /\ impl = "async"
  /\ turn.handler = RescheduleRoute
  /\ turn.answer = Failed
  /\ turn.prompts = <<AskDateText(impl)>>
  /\ NamedTargets(turn.response) = {RescheduleDateRoute}

\* C14 (as stated): when language detection fails, the request the handler's speech
\* helper makes carries the default language code hi-IN, as when detection gives no
\* answer
C14_DetectionFailureUsesDefault ==
  \A p \in Procs :
    (tts[p].via = "handler" /\ tts[p].detected = Failed) =>
      /\ tts[p].req.language_code = <<"hi-IN">>
      /\ tts[p].req = Request(tts[p].req.text, <<"hi-IN">>)

\* the helper of the blocking implementation, with language detection failing, sent
\* the backend a request with the language code "Unknown", and got no audio
C14_UnknownLanguageRequested ==
  \E p \in Procs :
    /\ impl = "sync"
    /\ tts[p].via = "handler"
    /\ tts[p].detected = Failed
    /\ tts[p].req.language_code = <<"Unknown">>
    /\ tts[p].pc = "done"
    /\ tts[p].invoked
    /\ tts[p].ref = NoneQ

-----------------------------------------------------------------------------
(* One webhook request, served in any state of the stores.  A handler keeps nothing *)
(* from one request to the next, so the transport may ask for any route in any      *)
(* state of the record store, the cache directory and the store client.              *)

\* the store client a request may find: none yet, or (async) the module singleton a
\* request before it has made
ClientsOf(i) == IF i = "async" THEN {NoneS, "client"} ELSE {NoneS}

InitTurn ==
  /\ impl \in Impls
  /\ \E sc \in Scenarios :
       /\ users = [p \in Phones |->
                     IF p = "p1" THEN UserDoc(p, sc.user) ELSE UserDoc(p, "none")]
       /\ car_services = [c \in CarNumbers |->
                     IF c = "V1" THEN ServiceDoc(c, sc.svc) ELSE ServiceDoc(c, "none")]
       /\ tts_env = sc.tts
  /\ cache_files = IF tts_env.cache = "warm" THEN WarmCache(impl) ELSE {}
  /\ mongo_client \in ClientsOf(impl)
  /\ today = Date(2025, 12, 15)
  /\ \E route \in RoutesOf(impl) : call = [phone |-> "p1", at |-> route, path |-> <<>>]
  /\ turn = NoTurn
  /\ tts = <<>>
  /\ store = NoStore

\* the request is served by the handler of its route
NextTurn ==
  /\ turn.handler = "none"
  /\ Next

SpecTurn == InitTurn /\ [][NextTurn]_vars

-----------------------------------------------------------------------------
(* The handler of a route as a function of what reaches it *)

\* what a request to `route` can bring: the transcript, the answer of the chain the
\* handler asks, the address of its coroutine objects, and what the store does to
\* its calls; with the transcript of handle_services, the list `chosen` it gives,
\* and with the answer of the date chain, the date parse_date_string resolves
TurnInputs(route) ==
  CASE route = CarNumberRoute(impl) ->
         [speech : {<<>>}, chosen : {<<>>}, date_obj : {NoneD}, answer : {<<>>}, addr : AddrsOf(impl),
          du : DbOutcomes, dw : {"ok"}]
    [] route = ServiceRoute ->
         [speech : Transcripts, chosen : {<<>>}, date_obj : {NoneD}, answer : YesAnswers, addr : AddrsOf(impl),
          du : DbOutcomes, dw : DbOutcomes]
    [] route = RescheduleRoute ->
         [speech : Transcripts, chosen : {<<>>}, date_obj : {NoneD}, answer : YesAnswers, addr : AddrsOf(impl),
          du : {"ok"}, dw : {"ok"}]
    [] route = RescheduleDateRoute ->
         UNION { LET date_obj == ResolvedDate(impl, a[1], a[2], today)
                 IN [speech : Transcripts, chosen : {<<>>}, date_obj : {date_obj},
                     answer : {a[1]}, addr : {a[2]}, du : DbOutcomes, dw : DbOutcomes] :
                 a \in DateAnswers \X AddrsOf(impl) }
    [] route = HandleServicesRoute ->
         UNION { LET chosen == ChosenList(impl, Lower(sp))
                     draws == StoreDraws(StoreCalled(sp, chosen))
                 IN [speech : {sp}, chosen : {chosen}, date_obj : {NoneD}, answer : {<<>>},
                     addr : AddrsOf(impl),
                     du : draws, dw : draws] : sp \in ServiceTranscripts }
    [] OTHER ->
         [speech : {<<>>}, chosen : {<<>>}, date_obj : {NoneD}, answer : {<<>>}, addr : AddrsOf(impl),
          du : {"ok"}, dw : {"ok"}]

\* the outcome of the handler of `route` for the request inp, with speech synthesis
\* behaving as t says, the cache directory holding `files` and the store client
\* being `client`; the record store and the date are those of the state
HandlerAt(route, inp, t, files, client) ==
  LET env == [lang |-> t.lang, addr |-> inp.addr, backend |-> t.backend, disk |-> t.disk]
  IN CASE route = VoiceRoute ->
            VoiceHandler(impl, files, car_services, client, env)
       [] route = CarNumberRoute(impl) ->
            CarNumberHandler(impl, files, users, car_services, client, call.phone, env, inp.du)
       [] route = ServiceRoute ->
            ServiceHandler(impl, files, users, car_services, client, call.phone,
                           inp.speech, inp.answer, env, inp.du, inp.dw)
       [] route = RescheduleRoute ->
            RescheduleHandler(impl, files, car_services, client, inp.speech, inp.answer, env)
       [] route = RescheduleDateRoute ->
            RescheduleDateHandler(impl, files, users, car_services, client, call.phone,
                                  inp.speech, inp.date_obj, today, env, inp.du, inp.dw)
       [] route = OfferServicesRoute ->
            OfferServicesHandler(impl, files, car_services, client, env)
       [] route = HandleServicesRoute ->
            HandleServicesHandler(impl, files, users, car_services, client, call.phone,
                                  inp.speech, inp.chosen, today, env, env, inp.du, inp.dw)

\* speech synthesis that fails: the backend answers with an error, the file cannot be
\* opened, the write fails, or language detection fails
FailingTts ==
  { [lang |-> <<"hi-IN">>, backend |-> "error", disk |-> "ok"],
    [lang |-> <<"hi-IN">>, backend |-> "ok", disk |-> "open_fails"],
    [lang |-> <<"hi-IN">>, backend |-> "ok", disk |-> "write_fails"],
    [lang |-> Failed, backend |-> "ok", disk |-> "ok"] }

WorkingTts == [lang |-> <<"hi-IN">>, backend |-> "ok", disk |-> "ok"]

\* the fallback_text arguments of the generate_tts_and_play / generate_tts_for_gather
\* calls of the handlers
FallbackTexts ==
  { <<"Hello! I am calling regarding your Bike service.">>,
    <<"Please confirm your Bike number">>,
    <<"Would you like to reschedule your service?">>,
    <<"Sorry for the inconvenience. Have a good day!">>,
    <<"Which date would you like to reschedule to?">>,
    <<"Alright, service will remain on the current date.">>,
    <<"Would you like any additional services?">>,
    <<"Alright, only regular service then. Thank you!">>,
    <<"Your service appointment is confirmed. Thank you for choosing us!">>,
    <<"Your selected services have been added.">>,
    <<"Your appointment is confirmed. Thank you and have a great day!">> }

\* a response with what it speaks left out: the verbs other than Play and Say, with
\* their targets and timeouts, in their order
Unspoken(v) ==
  IF IsSpeak(v) THEN [verb |-> "Speak"]
  ELSE IF v.verb = "Gather"
       THEN [v EXCEPT !.nested = [k \in DOMAIN v.nested |-> [verb |-> "Speak"]]]
       ELSE v

RestOf(response) ==
  [kind |-> response.kind, verbs |-> [k \in DOMAIN response.verbs |-> Unspoken(response.verbs[k])]]

\* C15: for any request to any route, a failing speech synthesis changes nothing
\* but what is spoken: each prompt is a Say of the handler's fallback text in hi-IN,
\* or the Play of a file that was in the cache before the turn; the Gather with its
\* target and timeout, the Redirect, the Hangup and the store writes are those of
\* the same turn with synthesis working
C15_SynthesisFailureKeepsDirective ==
  turn.handler = "none" =>
    \A inp \in TurnInputs(call.at) :
      LET ok == HandlerAt(call.at, inp, WorkingTts, cache_files, mongo_client)
      IN \A t \in FailingTts :
           LET bad == HandlerAt(call.at, inp, t, cache_files, mongo_client)
           IN /\ RestOf(bad.response) = RestOf(ok.response)
              /\ bad.coll = ok.coll
              /\ bad.writes = ok.writes
              /\ \A v \in AllVerbs(bad.response) :
                   IsSpeak(v) =>
                     \/ v = Say(NoResponseText, "en")
                     \/ /\ v.verb = "Say"
                        /\ v.language = "hi-IN"
                        /\ \/ v.text \in FallbackTexts
                           \/ bad.date_obj # NoneD /\ v.text = RescheduledFallback(bad.date_obj)
                     \/ /\ v.verb = "Play"
                        /\ \E f \in cache_files : v.audio = HitRef(impl, f.name)

\* reschedule_date(), with the synthesis backend answering with an error, wrote the
\* date, spoke its fallback text and redirected to /offer-services
C15_FallbackSpokenAndRedirected ==
  /\ impl = "sync"
  /\ tts_env.backend = "error"
  /\ turn.handler = RescheduleDateRoute
  /\ turn.invoked
  /\ turn.writes # <<>>
  /\ turn.response.verbs
       = <<Say(RescheduledFallback(turn.date_obj), "hi-IN"), Redirect(OfferServicesRoute)>>

-----------------------------------------------------------------------------
(* Which turn changes what of a record *)

\* a document without some of its fields; a record that is not there has none
Without(doc, fields) ==
  IF doc = NoneD THEN <<>> ELSE [f \in DOMAIN doc \ fields |-> doc[f]]

\* the record of car `c` is as before but for the fields named, of which it may
\* have been created
SameBut(old, new, c, fields) ==
  /\ new # NoneD
  /\ Without(new, fields) = Without(IF old = NoneD THEN [car_number |-> c] ELSE old, fields)

HasDueDate(doc) ==
  doc # NoneD /\ "next_service_date" \in DOMAIN doc /\ doc.next_service_date # NoneD

\* C16: a turn of Greeting, ConfirmVehicle, ServiceDuePrompt, RescheduleConfirm or
\* OfferServices leaves every record as it was; a RescheduleDateCaptured turn changes
\* at most the due date (and the timestamp) of the callee's record, a HandleServices
\* turn at most its add-on list (and the timestamp); no turn deletes a record or
\* leaves a record that had a due date without one
C16_OnlyTwoTurnsMutate ==
  [][ /\ turn'.handler \notin {RescheduleDateRoute, HandleServicesRoute}
           => car_services' = car_services
      /\ DOMAIN car_services' = DOMAIN car_services
      /\ \A c \in DOMAIN car_services :
           /\ car_services[c] # NoneD => car_services'[c] # NoneD
           /\ HasDueDate(car_services[c]) => HasDueDate(car_services'[c])
           /\ car_services'[c] # car_services[c] =>
                /\ HasCarNumber(users[call.phone]) /\ users[call.phone].car_number = c
                /\ turn'.handler = RescheduleDateRoute =>
                     SameBut(car_services[c], car_services'[c], c,
                             {"next_service_date", "updated_at"})
                /\ turn'.handler = HandleServicesRoute =>
                     SameBut(car_services[c], car_services'[c], c,
                             {"selected_services", "updated_at"}) ]_vars

\* a call went through every state and wrote both a new due date and an add-on to
\* the record that had another due date and another add-on before
C16_BothWritesInOneCall ==
  /\ call.at = "End"
  /\ \E k \in DOMAIN call.path : call.path[k] = "RescheduleDateCaptured"
  /\ turn.handler = HandleServicesRoute
  /\ car_services["V1"] # NoneD
  /\ HasDueDate(car_services["V1"])
  /\ car_services["V1"].next_service_date # Date(2025, 12, 20)
  /\ "selected_services" \in DOMAIN car_services["V1"]
  /\ Len(car_services["V1"].selected_services) >= 2
  /\ car_services["V1"].selected_services[1] = SERVICES[5]

-----------------------------------------------------------------------------
(* The two writes of a record, one beside the other *)

\* the selected_services and the next_service_date of one document
AddOnsOf(doc) == DictGet(doc, "selected_services", <<>>)
DueDateOf(doc) == DictGet(doc, "next_service_date", [absent |-> TRUE])

\* C17: whenever the store applies an update_service_date, the add-on list of every
\* record is as before (a document it inserts has none), and whenever it applies an
\* add_selected_services, the due date of every record is as before (a document it
\* inserts has none); this for every order and number of the calls
C17_WritesIndependent ==
  [][ store'.applied = store.applied + 1 =>
        /\ Len(store'.dups) >= Len(store.dups)
        /\ \A k \in DOMAIN store.dups : store'.dups[k] = store.dups[k]
        /\ store'.last.op = "update_service_date" =>
             /\ \A c \in CarNumbers : AddOns(car_services', c) = AddOns(car_services, c)
             /\ \A k \in DOMAIN store'.dups \ DOMAIN store.dups :
                  AddOnsOf(store'.dups[k]) = <<>>
        /\ store'.last.op = "add_selected_services" =>
             /\ \A c \in CarNumbers : DueDate(car_services', c) = DueDate(car_services, c)
             /\ \A k \in DOMAIN store'.dups \ DOMAIN store.dups :
                  DueDateOf(store'.dups[k]) = [absent |-> TRUE] ]_vars

\* an add_selected_services and then an update_service_date were applied to the record
\* that had a due date and an add-on: it has the new date, the add-on it had and the
\* add-on added
C17_DateAfterAddOnsBothKept ==
  \E p, q \in Procs :
    /\ p # q
    /\ AppliedUpdate(p) /\ ~store.ops[p].beside
    /\ store.ops[q].pc = "done" /\ store.ops[q].op = "add_selected_services"
    /\ store.ops[q].order > 0 /\ ~store.ops[q].beside
    /\ store.ops[q].order < store.ops[p].order
    /\ store.ops[q].addons0 = <<SERVICES[5]>>
    /\ store.ops[q].list = <<SERVICES[3]>>
    /\ DueDate(car_services, "V1") = store.ops[p].date
    /\ AddOns(car_services, "V1") = <<SERVICES[5], SERVICES[3]>>

-----------------------------------------------------------------------------
(* A write applied twice *)

\* the two calls applied last are the same call with the same arguments, made one
\* after the other: each was sent after every earlier write had been applied
AppliedTwice ==
  /\ store.applied >= 2
  /\ store.last.op = store.last2.op
  /\ store.last.car = store.last2.car
  /\ store.last.date = store.last2.date
  /\ store.last.list = store.last2.list
  /\ store.last.sequential /\ store.last2.sequential

\* C18 (as stated): after update_service_date(v, d) or add_selected_services(v, names)
\* was applied twice with the same arguments, the records are in the state the first
\* application left them in
C18_SameStateAsOnce ==
  AppliedTwice => car_services = store.prev

\* C18 (amended): ... the records are in the state the first application left them
\* in but for updated_at of the record of v, which is the time of the second
\* application; the second application inserts no document
C18_SameStateButTimestamp ==
  AppliedTwice =>
    /\ DOMAIN car_services = DOMAIN store.prev
    /\ \A c \in DOMAIN car_services :
         Without(car_services[c], {"updated_at"}) = Without(store.prev[c], {"updated_at"})
    /\ \A c \in DOMAIN car_services \ {store.last.car} : car_services[c] = store.prev[c]
    /\ car_services[store.last.car] # NoneD
    /\ car_services[store.last.car].updated_at = store.last.now
    /\ \A p \in Procs : store.ops[p].order = store.applied => ~store.ops[p].beside

\* the first application created the record, the second found it: one record, with
\* what the call wrote
C18_CreatedThenAppliedAgain ==
  \E p, q \in Procs :
    /\ AppliedTwice
    /\ store.applied = 2
    /\ store.ops[p].order = 1 /\ ~store.ops[p].matched
    /\ store.ops[q].order = 2 /\ store.ops[q].matched
    /\ RecordCount(car_services, store.dups, store.last.car) = 1
    /\ store.last.op = "add_selected_services"
    /\ store.last.list = <<SERVICES[5], SERVICES[3]>>
    /\ AddOns(car_services, store.last.car) = <<SERVICES[5], SERVICES[3]>>
    /\ car_services[store.last.car].updated_at # store.prev[store.last.car].updated_at

-----------------------------------------------------------------------------
(* The turn after a speech-collection timeout *)

\* the routes whose handler reads SpeechResult
TranscriptRoutes == {ServiceRoute, RescheduleRoute, RescheduleDateRoute, HandleServicesRoute}

\* the date chain found no date: "None", or nothing at all
HoldsNoDate(answer) == ExtractDates(answer) \in {<<>>, <<"N", "o", "n", "e">>}

\* the request matches no intent of the route: the yes/no chain does not answer
\* true, the date chain finds no date, the transcript has no negative keyword and
\* names no catalog entry
NoIntent(route, inp) ==
  CASE route \in {ServiceRoute, RescheduleRoute} -> ~IsYes(inp.answer)
    [] route = RescheduleDateRoute -> HoldsNoDate(inp.answer)
    [] route = HandleServicesRoute -> ~IsNegative(Lower(inp.speech)) /\ inp.chosen = <<>>
    [] OTHER -> FALSE

\* the request of a speech-collection timeout: the transcript is empty, and a chain
\* asked about it answers as for no intent
Timeout(route, inp) ==
  /\ inp.speech = <<>>
  /\ route # HandleServicesRoute => NoIntent(route, inp)

\* C19: for any request to a route that reads a transcript, the turn with the empty
\* transcript, which the chains class as no intent, has the response, the records
\* and the store writes of the turn with a transcript that is not empty and matches
\* no intent of the route, the store answering both alike
C19_TimeoutAsNoIntent ==
  (turn.handler = "none" /\ call.at \in TranscriptRoutes) =>
    LET none == {inp \in TurnInputs(call.at) : NoIntent(call.at, inp)}
    IN \A a \in {inp \in TurnInputs(call.at) : Timeout(call.at, inp)} :
         LET silent == HandlerAt(call.at, a, tts_env, cache_files, mongo_client)
         IN \A b \in {inp \in none : inp.speech # <<>> /\ inp.addr = a.addr
                                         /\ inp.du = a.du /\ inp.dw = a.dw} :
              LET said == HandlerAt(call.at, b, tts_env, cache_files, mongo_client)
              IN /\ silent.response = said.response
                 /\ silent.coll = said.coll
                 /\ silent.writes = said.writes
                 /\ silent.client = said.client

\* handle_services() was asked with an empty transcript: it wrote nothing, said it
\* had not understood and hung up, where some other transcript names no entry and
\* no negative keyword either
C19_SilenceNotUnderstood ==
  /\ turn.handler = HandleServicesRoute
  /\ turn.speech = <<>>
  /\ turn.branch = "not_understood"
  /\ turn.writes = <<>>
  /\ turn.response.kind = "twiml"
  /\ turn.response.verbs[Len(turn.response.verbs)] = Hangup
  /\ car_services = [c \in CarNumbers |-> IF c = "V1" THEN ServiceDoc(c, "dated") ELSE NoneD]
  /\ \E sp \in ServiceTranscripts :
       sp # <<>> /\ ~IsNegative(Lower(sp)) /\ ChosenList(impl, Lower(sp)) = <<>>

-----------------------------------------------------------------------------
(* A turn in a process that has served turns before *)

\* C20 (as stated): at any point of a call, the response and the store writes of
\* the next turn, for any request and any answers of the chains and the store, are
\* those the same turn has in a process that has served no turn before
C20_SameAsInFreshProcess ==
  call.at \in RoutesOf(impl) =>
    \A inp \in TurnInputs(call.at) :
      LET here  == HandlerAt(call.at, inp, tts_env, cache_files, mongo_client)
          fresh == HandlerAt(call.at, inp, tts_env, cache_files, NoneS)
      IN /\ here.response = fresh.response
         /\ here.writes = fresh.writes

\* an earlier turn has left the store client in the module, and a request that is
\* answered with markup now is answered with a server error by a process without it
C20_EarlierTurnLeftClient ==
  /\ impl = "async"
  /\ turn.handler # "none"
  /\ mongo_client # NoneS
  /\ call.at \in RoutesOf(impl)
  /\ \E inp \in TurnInputs(call.at) :
       /\ HandlerAt(call.at, inp, tts_env, cache_files, mongo_client).response.kind = "twiml"
       /\ HandlerAt(call.at, inp, tts_env, cache_files, NoneS).response = ServerError

-----------------------------------------------------------------------------
(* The two implementations, side by side *)

\* what a request brings to the handler of a state: the transcript, what the yes/no
\* and the date chain answer to it, and what the store does to the calls
RawInputs(state) ==
  CASE state = "ConfirmVehicle" ->
         [speech : {<<>>}, yes : {Failed}, date : {<<>>}, du : DbOutcomes, dw : {"ok"}]
    [] state = "ServiceDuePrompt" ->
         [speech : Transcripts, yes : YesAnswers, date : {<<>>}, du : DbOutcomes, dw : DbOutcomes]
    [] state = "RescheduleConfirm" ->
         [speech : Transcripts, yes : YesAnswers, date : {<<>>}, du : {"ok"}, dw : {"ok"}]
    [] state = "RescheduleDateCaptured" ->
         [speech : Transcripts, yes : {Failed}, date : DateAnswers, du : DbOutcomes, dw : DbOutcomes]
    [] state = "HandleServices" ->
         [speech : ServiceTranscripts, yes : {Failed}, date : {<<>>}, du : DbOutcomes,
          dw : DbOutcomes]
    [] OTHER ->
         [speech : {<<>>}, yes : {Failed}, date : {<<>>}, du : {"ok"}, dw : {"ok"}]

\* the handler of implementation i for a state, run on the request
HandlerOf(i, state, inp, addr, files, client) ==
  LET env == SpeakEnv(addr)
  IN CASE state = "Greeting" ->
            VoiceHandler(i, files, car_services, client, env)
       [] state = "ConfirmVehicle" ->
            CarNumberHandler(i, files, users, car_services, client, call.phone, env, inp.du)
       [] state = "ServiceDuePrompt" ->
            ServiceHandler(i, files, users, car_services, client, call.phone,
                           inp.speech, inp.yes, env, inp.du, inp.dw)
       [] state = "RescheduleConfirm" ->
            RescheduleHandler(i, files, car_services, client, inp.speech, inp.yes, env)
       [] state = "RescheduleDateCaptured" ->
            RescheduleDateHandler(i, files, users, car_services, client, call.phone,
                                  inp.speech, ResolvedDate(i, inp.date, addr, today),
                                  today, env, inp.du, inp.dw)
       [] state = "OfferServices" ->
            OfferServicesHandler(i, files, car_services, client, env)
       [] state = "HandleServices" ->
            HandleServicesHandler(i, files, users, car_services, client, call.phone,
                                  inp.speech, ChosenList(i, Lower(inp.speech)), today,
                                  env, env, inp.du, inp.dw)

\* the kind of a verb and the state it sends the call to
VerbKind(v) ==
  CASE IsSpeak(v) -> [verb |-> "Speak", to |-> "-"]
    [] v.verb = "Gather" -> [verb |-> "Gather", to |-> StateOf(v.action)]
    [] v.verb = "Redirect" -> [verb |-> "Redirect", to |-> StateOf(v.url)]
    [] OTHER -> [verb |-> v.verb, to |-> "End"]

\* the kind of directive of a response, with its next state
DirectiveKind(response) ==
  [kind |-> response.kind, verbs |-> [k \in DOMAIN response.verbs |-> VerbKind(response.verbs[k])]]

\* C21 (as stated): in any state of a call, for every request and every answer of the
\* chains and of the store, the handlers of the blocking and of the non-blocking
\* implementation give the same kind of directive with the same next state, and
\* make the same store writes with the same values
C21_ImplementationsEquivalent ==
  call.at \in RoutesOf(impl) =>
    \A inp \in RawInputs(StateOf(call.at)), addr \in Addrs :
      LET b == HandlerOf("sync", StateOf(call.at), inp, addr, cache_files, mongo_client)
          n == HandlerOf("async", StateOf(call.at), inp, addr, cache_files, mongo_client)
      IN /\ DirectiveKind(b.response) = DirectiveKind(n.response)
         /\ b.writes = n.writes

\* reschedule_date() of the non-blocking implementation was given the date
\* 2026-01-20 by the date chain and wrote today + 30 days, where the blocking
\* implementation writes 2026-01-20
C21_AsyncWroteDefaultDate ==
  /\ impl = "async"
  /\ turn.handler = RescheduleDateRoute
  /\ turn.answer = <<"2", "0", "2", "6", "-", "0", "1", "-", "2", "0">>
  /\ Len(turn.writes) = 1
  /\ turn.writes[1].date = AddDays(today, DefaultDays)
  /\ car_services["V1"].next_service_date = AddDays(today, DefaultDays)
  /\ \A addr \in Addrs : ResolvedDate("sync", turn.answer, addr, today) = Date(2026, 1, 20)

-----------------------------------------------------------------------------
(* A read of the record store that fails *)

\* the lookup does not get its answer from the store: no client, or find_one raises
ReadFails(i, client, outcome) == ~StoreAnswers(i, client, outcome)

\* C22 (as stated): whenever the next turn is car_number() and the lookup of the user
\* fails, the response is the Gather for /service with the 'state your vehicle
\* number' prompt; whenever it is service() with a yes and the lookup of the service
\* record fails, the response is the Gather for /reschedule with the 'due next
\* month' prompt
C22_ReadFailureDegrades ==
  /\ call.at = CarNumberRoute(impl) =>
       \A inp \in TurnInputs(call.at) :
         ReadFails(impl, mongo_client, inp.du) =>
           LET o == HandlerAt(call.at, inp, tts_env, cache_files, mongo_client)
           IN /\ o.response.kind = "twiml"
              /\ o.prompts = <<AskCarText>>
              /\ o.response.verbs[1].verb = "Gather"
              /\ o.response.verbs[1].action = ServiceRoute
  /\ call.at = ServiceRoute =>
       \A inp \in TurnInputs(call.at) :
         LET u == GetUserData(impl, users, mongo_client, call.phone, inp.du)
         IN (/\ IsYes(inp.answer)
             /\ ~ReadFails(impl, mongo_client, inp.du)
             /\ ReadFails(impl, u.client, inp.dw)) =>
              LET o == HandlerAt(call.at, inp, tts_env, cache_files, mongo_client)
              IN /\ o.response.kind = "twiml"
                 /\ o.prompts = <<DueNextMonthText>>
                 /\ NamedTargets(o.response) = {RescheduleRoute}

\* car_number() of the non-blocking implementation could not make the store client
\* and was answered with a server error
C22_AsyncLookupIsServerError ==
  /\ impl = "async"
  /\ turn.handler = CarNumberRoute(impl)
  /\ turn.branch = "raised_user"
  /\ turn.response = ServerError
  /\ mongo_client = NoneS
  /\ call.at = "End"

-----------------------------------------------------------------------------
(* parse_date_string, on the date texts it may be given *)

DayTexts == { <<"5">>, <<"0", "5">>, <<"2", "9">>, <<"3", "1">> }
MonthTexts == { <<"0", "2">>, <<"0", "9">>, <<"1", "2">> }
YearTexts == { <<"2", "0", "2", "5">>, <<"2", "0", "2", "6">> }
NamedMonths == { MonthNames[2], MonthNames[9] }

\* the texts of the date chain: dates in the notations of the prompt's examples, a
\* day with a month that has no such day, a comma-separated list, the sentinel
\* "None", free text, nothing, and the values that are no strings
DateTexts ==
  { y \o <<"-">> \o m \o <<"-">> \o d : y \in YearTexts, m \in MonthTexts, d \in DayTexts }
    \cup { d \o <<"/">> \o m \o <<"/">> \o y : y \in YearTexts, m \in MonthTexts, d \in DayTexts }
    \cup { d \o <<" ">> \o m \o <<" ">> \o y : y \in YearTexts, m \in NamedMonths, d \in DayTexts }
    \cup { d \o <<"t", "h", " ">> \o m \o <<" ">> \o y :
             y \in YearTexts, m \in NamedMonths, d \in {<<"5">>, <<"2", "9">>} }
    \cup { d \o <<" ">> \o SubSeq(m, 1, 3) : m \in NamedMonths, d \in {<<"5">>, <<"3", "1">>} }
    \cup { <<"2", "0", "2", "6", "-", "0", "1", "-", "2", "0", ",", " ",
              "2", "0", "2", "6", "-", "0", "2", "-", "1", "0">>,
            <<" ", "2", "0", "2", "5", "-", "0", "9", "-", "0", "5", "\n">>,
            <<"N", "o", "n", "e">>, <<"k", "a", "l">>, <<>>, NoneQ,
            Coroutine("extract_dates", "0x7f01") }

\* the days a call may be made on
CallDays == { Date(2025, 12, 15), Date(2026, 1, 31) }

InitDate ==
  /\ impl \in Impls
  /\ users = [p \in Phones |-> NoneD]
  /\ car_services = [c \in CarNumbers |-> NoneD]
  /\ cache_files = {}
  /\ mongo_client = NoneS
  /\ today \in CallDays
  /\ tts_env = PlainTts
  /\ call = [phone |-> "p1", at |-> "End", path |-> <<>>]
  /\ \E date_str \in DateTexts : turn = [NoTurn EXCEPT !.answer = date_str]
  /\ tts = <<>>
  /\ store = NoStore

\* date_obj = parse_date_string(date_str)
ParseDate ==
  /\ turn.handler = "none"
  /\ turn' = [turn EXCEPT !.handler = "parse_date_string",
                          !.date_obj = ParseDateString(turn.answer, today)]
  /\ UNCHANGED <<impl, users, car_services, cache_files, mongo_client, today, tts_env,
                 call, tts, store>>

NextDate == ParseDate

SpecDate == InitDate /\ [][NextDate]_vars

\* no format of the list parses the text, and the dateutil parser does not either
Unparseable(date_str) ==
  /\ \A k \in DOMAIN FORMATS : StrpTime(Strip(date_str), FORMATS[k]) = NoneD
  /\ DateutilParse(date_str) = NoneD

NoneText == <<"N", "o", "n", "e">>

\* C23: parse_date_string returns the day of the call plus 30 days for the empty
\* text, for "None", and for every text that no format of the list and the
\* dateutil parser parse
C23_DefaultIsThirtyDaysAhead ==
  (/\ turn.handler = "parse_date_string"
   /\ ~IsCoroutine(turn.answer) /\ turn.answer # NoneQ
   /\ (turn.answer \in {<<>>, NoneText} \/ Unparseable(turn.answer))) =>
     turn.date_obj = AddDays(today, DefaultDays)

\* parse_date_string was given "None" on 2025-12-15 and returned 2026-01-14; the
\* texts include one with a day its month does not have, which is unparseable too
C23_NoneGivesDefault ==
  /\ turn.handler = "parse_date_string"
  /\ turn.answer = NoneText
  /\ today = Date(2025, 12, 15)
  /\ turn.date_obj = Date(2026, 1, 14)
  /\ Unparseable(<<"3", "1", " ">> \o MonthNames[2] \o <<" ", "2", "0", "2", "6">>)

\* C24: parse_date_string returns a date of the calendar for every value it is
\* given: nothing it calls raises out of it
C24_AlwaysADate ==
  turn.handler = "parse_date_string" =>
    /\ IsDate(turn.date_obj)
    /\ ValidDate(turn.date_obj.y, turn.date_obj.m, turn.date_obj.d)

\* parse_date_string was given the coroutine object of an extract_dates that was not
\* awaited, and returned the default date
C24_CoroutineGivesDefault ==
  /\ turn.handler = "parse_date_string"
  /\ IsCoroutine(turn.answer)
  /\ turn.date_obj = AddDays(today, DefaultDays)

Sep5 == Date(2025, 9, 5)

\* C25: parse_date_string maps "2025-09-05", "5th September 2025" and "05/09/2025"
\* to the date 2025-09-05
C25_ThreeNotationsOneDate ==
  (/\ turn.handler = "parse_date_string"
   /\ turn.answer \in { <<"2", "0", "2", "5", "-", "0", "9", "-", "0", "5">>,
                         <<"5", "t", "h", " ">> \o MonthNames[9] \o <<" ", "2", "0", "2", "5">>,
                         <<"0", "5", "/", "0", "9", "/", "2", "0", "2", "5">> }) =>
     turn.date_obj = Sep5

\* parse_date_string was given "05/09/2025" and returned the fifth of September
C25_SlashNotationDayFirst ==
  /\ turn.handler = "parse_date_string"
  /\ turn.answer = <<"0", "5", "/", "0", "9", "/", "2", "0", "2", "5">>
  /\ turn.date_obj = Sep5

-----------------------------------------------------------------------------
(* The response of each state *)

\* C26 (as stated): the response of Greeting is the welcome utterance followed by a
\* Gather whose action is the route of ConfirmVehicle
C26_GreetingGathers ==
  turn.handler = VoiceRoute =>
    /\ turn.response.kind = "twiml"
    /\ turn.prompts = <<GreetingText(impl)>>
    /\ Len(turn.response.verbs) = 2
    /\ IsSpeak(turn.response.verbs[1])
    /\ turn.response.verbs[2].verb = "Gather"
    /\ StateOf(turn.response.verbs[2].action) = "ConfirmVehicle"

\* C26 (amended): the response of Greeting is the welcome utterance followed by a
\* Redirect to the route of ConfirmVehicle; it collects no speech
C26_GreetingRedirects ==
  turn.handler = VoiceRoute =>
    /\ turn.response.kind = "twiml"
    /\ turn.prompts = <<GreetingText(impl)>>
    /\ Len(turn.response.verbs) = 2
    /\ IsSpeak(turn.response.verbs[1])
    /\ turn.response.verbs[2] = Redirect(CarNumberRoute(impl))
    /\ StateOf(CarNumberRoute(impl)) = "ConfirmVehicle"
    /\ ~HasVerb(turn.response, "Gather")

\* voice() has answered, and the call is at the route of ConfirmVehicle
C26_Greeted ==
  /\ turn.handler = VoiceRoute
  /\ call.path = <<"Greeting">>
  /\ call.at = CarNumberRoute(impl)
  /\ turn.response.verbs[2].verb = "Redirect"

\* the service record of the callee's vehicle, as service() looks it up
CalleeRecord == FindOne(car_services, CarOf(users[call.phone]))

\* C27 (as stated): whenever the next turn is service() with a yes, the store
\* answering, the response is a Gather for the route of RescheduleConfirm, with the
\* due date spoken when the record holds one, and with the 'due next month' text
\* when there is no record or its due date is absent or null
C27_DueDateOrNextMonth ==
  call.at = ServiceRoute =>
    \A inp \in TurnInputs(call.at) :
      (IsYes(inp.answer) /\ inp.du = "ok" /\ inp.dw = "ok") =>
        LET o == HandlerAt(call.at, inp, tts_env, cache_files, mongo_client)
        IN /\ o.response.kind = "twiml"
           /\ Len(o.response.verbs) = 1
           /\ o.response.verbs[1].verb = "Gather"
           /\ o.response.verbs[1].action = RescheduleRoute
           /\ o.prompts =
                IF HasDueDate(CalleeRecord)
                THEN <<DueDateText(impl, FormatDateForHindiSpeech(CalleeRecord.next_service_date))>>
                ELSE <<DueNextMonthText>>

\* service() of the non-blocking implementation, for a record whose due date is
\* null, left format_date_for_hindi_speech with an exception
C27_AsyncNullDateRaises ==
  /\ impl = "async"
  /\ turn.handler = ServiceRoute
  /\ turn.branch = "raised_format"
  /\ car_services["V1"] = ServiceDoc("V1", "null_date")
  /\ turn.response = ServerError

\* the due dates of all records
DueDates(coll) == [c \in DOMAIN coll |-> DueDate(coll, c)]

\* C28 (as stated): the turn of RescheduleConfirm answers a yes with a Gather for the
\* route of RescheduleDateCaptured, and a no with a Redirect to OfferServices and
\* no Gather, after which the call is at OfferServices; and no turn but that of
\* RescheduleDateCaptured changes a due date, so that the due date of a caller who
\* declined is at the end of the call what it was at the start
C28_DeclineKeepsDueDate ==
  [][ /\ (turn'.handler = RescheduleRoute /\ IsYes(turn'.answer)) =>
           /\ turn'.response.kind = "twiml"
           /\ turn'.response.verbs[1].verb = "Gather"
           /\ turn'.response.verbs[1].action = RescheduleDateRoute
      /\ (turn'.handler = RescheduleRoute /\ ~IsYes(turn'.answer)) =>
           /\ turn'.response.kind = "twiml"
           /\ ~HasVerb(turn'.response, "Gather")
           /\ NamedTargets(turn'.response) = {OfferServicesRoute}
           /\ call'.at = OfferServicesRoute
      /\ turn'.handler # RescheduleDateRoute =>
           DueDates(car_services') = DueDates(car_services) ]_vars

\* reschedule() of the non-blocking implementation, the yes/no chain answering
\* "False", asked for a date: the call is at the route of RescheduleDateCaptured
C28_AsyncDeclineAsksDate ==
  /\ impl = "async"
  /\ turn.handler = RescheduleRoute
  /\ turn.answer = <<"F", "a", "l", "s", "e">>
  /\ turn.response.verbs[1].verb = "Gather"
  /\ call.at = RescheduleDateRoute

\* the response confirms date d and goes on to OfferServices
ConfirmsDate(t, d) ==
  /\ t.response.kind = "twiml"
  /\ Len(t.response.verbs) = 2
  /\ IsSpeak(t.response.verbs[1])
  /\ t.response.verbs[2] = Redirect(OfferServicesRoute)
  /\ t.prompts = <<RescheduledText(impl, FormatDateForHindiSpeech(d))>>

C29_ConfirmedUnwritten ==
  /\ turn.handler = RescheduleDateRoute
  /\ turn.writes # <<>>
  /\ ~turn.writes[1].ok
  /\ turn.branch = "rescheduled"
  /\ DueDate(car_services, CarOf(users[turn.phone])) # turn.date_obj

\* C30: a turn of HandleServices whose lowered transcript contains a negative
\* keyword calls no write and leaves the records as they were, and answers with
\* the two closing utterances and a hang-up, whatever catalog names or numbers
\* the transcript also contains: the refusal is decided before the matching
C30_RefusalDecidedFirst ==
  [][ (turn'.handler = HandleServicesRoute /\ IsNegative(Lower(turn'.speech))) =>
        /\ turn'.writes = <<>>
        /\ car_services' = car_services
        /\ turn'.response.kind = "twiml"
        /\ Len(turn'.response.verbs) = 3
        /\ IsSpeak(turn'.response.verbs[1])
        /\ IsSpeak(turn'.response.verbs[2])
        /\ turn'.response.verbs[3] = Hangup
        /\ turn'.prompts = <<OnlyRegularText, OnlyRegularFinalText(impl)>>
        /\ turn'.next = "End" ]_vars

\* a transcript that names a catalog item and refuses was answered as a refusal
C30_RefusedWhileNaming ==
  /\ turn.handler = HandleServicesRoute
  /\ IsNegative(Lower(turn.speech))
  /\ ChosenList(impl, Lower(turn.speech)) # <<>>
  /\ turn.branch = "declined"
  /\ turn.writes = <<>>

-----------------------------------------------------------------------------
(* Termination of a call *)

\* the transport's side of a turn: while the call is not over it requests a route
\* (or ends the call) and the state served joins the path
Requested ==
  /\ call.at # "End"
  /\ \E nxt \in RoutesOf(impl) \cup {"End"} :
       call' = [call EXCEPT !.at = nxt, !.path = Append(@, StateOf(call.at))]

\* the transport requests the target a response names and the handler answers:
\* a call that is not over takes its next turn
FairSpec == Init /\ [][Next]_vars /\ WF_call(Requested)

\* no state of the conversation was served twice
NoStateRepeated ==
  \A j, k \in DOMAIN call.path : j # k => call.path[j] # call.path[k]

\* the last response ended the call: it hangs up, or names no further target
CallEnded ==
  /\ call.at = "End"
  /\ turn.handler # "none"
  /\ "End" \in NextTargets(turn.response)

\* C31: whatever the transcripts, the oracle answers and the stores do, a call
\* whose transport requests the targets the responses name serves no state twice,
\* takes at most seven turns, and reaches a response that ends it
C31_EveryCallEnds ==
  /\ [](NoStateRepeated /\ Len(call.path) <= 7)
  /\ <>[]CallEnded

\* a call ended by a response that does not hang up and names no further target
C31_EndedWithoutHangup ==
  /\ CallEnded
  /\ turn.response.kind = "twiml"
  /\ ~HasVerb(turn.response, "Hangup")

-----------------------------------------------------------------------------
(* _generate_cache_key on pairs of requests *)

\* the texts, voice names and language codes of the requests drawn
KeyTexts == { <<"a">>, <<"a", "_", "b">> }
KeyVoices == { NoneQ, <<"None">>, <<"c">>, <<"b", "_", "c">> }
KeyLanguages == { <<"hi-IN">>, <<"en-US">> }

KeyRequests ==
  { [Request(text, lang) EXCEPT !.voice_name = voice] :
      text \in KeyTexts, voice \in KeyVoices, lang \in KeyLanguages }

NoKey == <<"?">>

InitKey ==
  /\ impl \in Impls
  /\ users = [p \in Phones |-> NoneD]
  /\ car_services = [c \in CarNumbers |-> NoneD]
  /\ cache_files = {}
  /\ mongo_client = NoneS
  /\ today = Date(2025, 12, 15)
  /\ tts_env = PlainTts
  /\ call = [phone |-> "p1", at |-> "End", path |-> <<>>]
  /\ turn = NoTurn
  /\ \E r1, r2 \in KeyRequests :
       tts = [p \in Procs |-> [req |-> IF p = "h1" THEN r1 ELSE r2,
                               content |-> NoKey, key |-> NoKey]]
  /\ store = NoStore

\* cache_key = self._generate_cache_key(text, voice_name, language_code, ...)
KeyOf(p) ==
  /\ tts[p].key = NoKey
  /\ tts' = [tts EXCEPT ![p].content = CanonicalString(tts[p].req),
                        ![p].key = GenerateCacheKey(tts[p].req)]
  /\ UNCHANGED <<impl, users, car_services, cache_files, mongo_client, today, tts_env,
                 call, turn, store>>

NextKey == \E p \in Procs : KeyOf(p)

SpecKey == InitKey /\ [][NextKey]_vars

BothKeyed == \A p \in Procs : tts[p].key # NoKey

\* C32 (as stated): two requests that differ in the text or in a parameter have
\* different canonical strings, and so different cache keys
C32_DistinctRequestsDistinctStrings ==
  (BothKeyed /\ tts["h1"].req # tts["h2"].req) =>
    /\ tts["h1"].content # tts["h2"].content
    /\ tts["h1"].key # tts["h2"].key

\* two requests with different texts and voice names got one canonical string
C32_UnderscoreCollision ==
  /\ BothKeyed
  /\ tts["h1"].req.text # tts["h2"].req.text
  /\ tts["h1"].req.voice_name # tts["h2"].req.voice_name
  /\ tts["h1"].content = tts["h2"].content
  /\ tts["h1"].key = tts["h2"].key

-----------------------------------------------------------------------------
(* Cache hits and failed calls of generate_speech *)

\* the step is the cache check of a call of q that returns the reference of a file
HitStep(q) ==
  /\ tts[q].pc \in {"idle", "done"}
  /\ tts'[q].calls = tts[q].calls + 1
  /\ tts'[q].pc = "done"
  /\ tts'[q].ref # NoneQ

\* a call of p has opened the file of that name and not yet written it
Writing(p, name) == tts[p].pc = "open" /\ FileName(impl, tts[p].req) = name

\* C33 (as stated): a call that returns a reference as a cache hit finds the file
\* completely written, and no other handler is between its open() and its write()
\* of that file
C33_HitOnCompleteArtifact ==
  [][ \A q \in Procs :
        HitStep(q) =>
          /\ \A f \in cache_files :
                f.name = FileName(impl, tts'[q].req) => Complete(f)
          /\ \A p \in Procs \ {q} : ~Writing(p, FileName(impl, tts'[q].req)) ]_vars

\* a handler was given a hit on a file another handler has truncated and not yet
\* written
C33_HitOnOpenFile ==
  \E p, q \in Procs :
    /\ p # q
    /\ tts[q].pc = "done" /\ tts[q].existed /\ ~tts[q].invoked /\ tts[q].ref # NoneQ
    /\ Writing(p, FileName(impl, tts[q].req))
    /\ ~tts[p].orphan
    /\ FileContent(cache_files, FileName(impl, tts[q].req)) = <<>>

\* the step ends a call of p with None after the backend or the disk failed
FailStep(p) ==
  /\ tts[p].pc # "done"
  /\ tts'[p].pc = "done"
  /\ tts'[p].failed \in {"synthesize", "open", "write"}

\* C34 (as stated): when a call ends with None because the backend, open() or
\* write() failed, and no other handler is writing the file of its key, the cache
\* holds no partial file for that key: the next call for the request misses, or
\* hits a complete artifact written by another call
C34_FailureLeavesNoPartialFile ==
  [][ \A p \in Procs :
        (/\ FailStep(p)
         /\ \A q \in Procs \ {p} : ~Writing(q, FileName(impl, tts[p].req))) =>
          \A f \in cache_files' :
            f.name = FileName(impl, tts[p].req) => Complete(f) ]_vars

\* a call ended with None at write(); the file it had created stayed, and a later
\* call for the same request was given a hit on it without the backend
C34_HitAfterFailedWrite ==
  \E p, q \in Procs :
    /\ p # q
    /\ tts[p].pc = "done" /\ tts[p].failed = "write" /\ tts[p].ref = NoneQ
    /\ tts[q].pc = "done" /\ tts[q].existed /\ ~tts[q].invoked /\ tts[q].ref # NoneQ
    /\ tts[q].req = tts[p].req
    /\ \A r \in Procs : tts[r].pc # "open"
    /\ Len(FileContent(cache_files, FileName(impl, tts[p].req))) = 1

-----------------------------------------------------------------------------
(* Frame conditions of the record store *)

\* the add-on set of the record of a vehicle
AddOnSet(coll, car) == SeqToSet(AddOns(coll, car))

\* C35: every turn leaves the add-on set of every record as it was or extends it
\* by names of the SERVICES catalog; no turn removes a name
C35_AddOnsOnlyGrowByCatalog ==
  [][ \A c \in CarNumbers :
        /\ AddOnSet(car_services, c) \subseteq AddOnSet(car_services', c)
        /\ AddOnSet(car_services', c) \ AddOnSet(car_services, c)
              \subseteq SeqToSet(SERVICES) ]_vars

\* a turn added a catalog name to a record that already held another
C35_AddOnsGrew ==
  /\ turn.handler = HandleServicesRoute
  /\ turn.writes # <<>>
  /\ turn.writes[1].ok
  /\ SERVICES[5] \notin SeqToSet(turn.writes[1].list)
  /\ SERVICES[5] \in AddOnSet(car_services, "V1")
  /\ SeqToSet(turn.writes[1].list) \subseteq AddOnSet(car_services, "V1")

\* C36: a turn of a call to callee A changes no record but the one keyed by the
\* car_number of A's users document, and calls no write for another key; when A has
\* no users document or no car_number the turn writes nothing, and no record keyed
\* by the placeholder 'unknown' comes to exist
C36_WritesOnlyCalleesRecord ==
  [][ LET u == users[call.phone]
      IN /\ \A c \in DOMAIN car_services \cup DOMAIN car_services' :
              (~HasCarNumber(u) \/ c # u.car_number) =>
                FindOne(car_services', c) = FindOne(car_services, c)
         /\ \A k \in DOMAIN turn'.writes :
              HasCarNumber(u) /\ turn'.writes[k].car = u.car_number
         /\ "unknown" \notin DOMAIN car_services' ]_vars

\* a callee without a vehicle chose add-ons, and the turn wrote nothing
C36_NoVehicleNoWrite ==
  /\ turn.handler = HandleServicesRoute
  /\ turn.branch = "selected"
  /\ ~HasCarNumber(users[turn.phone])
  /\ turn.writes = <<>>
  /\ DOMAIN car_services = CarNumbers

\* p was in add_selected_services and its update_one was applied
AppliedAddOns(p) ==
  /\ store.ops[p].pc = "done"
  /\ store.ops[p].op = "add_selected_services"
  /\ store.ops[p].order > 0

\* C37 (as stated): when two handlers concurrently call add_selected_services for
\* the same vehicle, after both have returned the add-on set of the vehicle's record
\* holds every name of both selections and every name it held before
C37_ConcurrentAddOnsAllKept ==
  \A p, q \in Procs :
    (/\ p # q
     /\ AppliedAddOns(p) /\ AppliedAddOns(q)
     /\ store.ops[p].car = store.ops[q].car
     /\ Overlapped(p, q)) =>
      /\ SeqToSet(NormalizeServices(store.ops[p].list))
            \subseteq AddOnSet(car_services, store.ops[p].car)
      /\ SeqToSet(NormalizeServices(store.ops[q].list))
            \subseteq AddOnSet(car_services, store.ops[p].car)
      /\ SeqToSet(store.ops[p].addons0) \subseteq AddOnSet(car_services, store.ops[p].car)

\* two concurrent add_selected_services calls for a vehicle without a record have
\* left two records of the vehicle, and the one find_one gives lacks a name of the
\* second selection
C37_SecondSelectionInOtherRecord ==
  \E p, q \in Procs :
    /\ p # q
    /\ AppliedAddOns(p) /\ AppliedAddOns(q)
    /\ store.ops[p].car = store.ops[q].car
    /\ Overlapped(p, q)
    /\ store.ops[p].order < store.ops[q].order
    /\ store.ops[q].beside
    /\ RecordCount(car_services, store.dups, store.ops[p].car) = 2
    /\ ~(SeqToSet(NormalizeServices(store.ops[q].list))
           \subseteq AddOnSet(car_services, store.ops[p].car))

-----------------------------------------------------------------------------
(* The date the reschedule turn persists *)

\* the update of the turn of RescheduleDateCaptured reached the store
DateWritten ==
  /\ turn.handler = RescheduleDateRoute
  /\ turn.writes # <<>>
  /\ turn.writes[1].ok

\* the date-extraction answers that name a full date, and a day and month only
FullDateAnswer == <<"2", "0", "2", "6", "-", "0", "1", "-", "2", "0">>
DayMonthAnswer == <<"5", " ", "S", "e", "p", "t", "e", "m", "b", "e", "r">>

\* C38 (as stated): the due date the turn of RescheduleDateCaptured persists is
\* not earlier than the date of the call
C38_PersistedDateNotPast ==
  DateWritten => ~DateBefore(DueDate(car_services, CarOf(users[turn.phone])), today)

\* C38 (amended): the due date persisted is the default, thirty days after the
\* date of the call, or the date the extracted text names: a full date as given,
\* a day and month in the year of the call, which may lie before the call; a text
\* that names no date always gives the default
C38_PersistedDateDefaultOrNamed ==
  DateWritten =>
    LET d == DueDate(car_services, CarOf(users[turn.phone]))
        default == AddDays(today, DefaultDays)
    IN /\ DateBefore(today, default)
       /\ \/ d = default
          \/ turn.answer = FullDateAnswer /\ d = Date(2026, 1, 20)
          \/ turn.answer = DayMonthAnswer /\ d = Date(today.y, 9, 5)
       /\ turn.answer \notin {FullDateAnswer, DayMonthAnswer} => d = default

\* a day and month already past in the year of the call was persisted as due date
C38_PastDatePersisted ==
  /\ DateWritten
  /\ turn.answer = DayMonthAnswer
  /\ DueDate(car_services, CarOf(users[turn.phone])) = Date(2025, 9, 5)
  /\ DateBefore(DueDate(car_services, CarOf(users[turn.phone])), today)

-----------------------------------------------------------------------------
(* Turns with an empty transcript *)

\* the step is a turn of a state that takes a transcript, with an empty one
SilentTurn ==
  turn'.handler \in TranscriptRoutes /\ turn'.speech = <<>>

AddOnSets(coll) == [c \in DOMAIN coll |-> AddOnSet(coll, c)]

\* C39 (as stated): a turn with an empty transcript, at ServiceDuePrompt,
\* RescheduleConfirm, RescheduleDateCaptured or HandleServices, leaves the due date
\* and the add-on set of every record as they were
C39_SilentTurnWritesNothing ==
  [][ SilentTurn =>
        /\ DueDates(car_services') = DueDates(car_services)
        /\ AddOnSets(car_services') = AddOnSets(car_services) ]_vars

\* C39 (amended): a turn with an empty transcript leaves the add-on set of every
\* record as it was; at ServiceDuePrompt, RescheduleConfirm and HandleServices it
\* calls no write and leaves the records as they were; at RescheduleDateCaptured
\* the due date of the callee's record becomes the date resolved from the answer of
\* the date chain, the default of thirty days after the call when that finds no
\* date, whenever the update reaches the store
C39_SilentTurnWritesOnlyDate ==
  [][ SilentTurn =>
        /\ AddOnSets(car_services') = AddOnSets(car_services)
        /\ turn'.handler # RescheduleDateRoute =>
             /\ turn'.writes = <<>>
             /\ car_services' = car_services
        /\ (/\ turn'.handler = RescheduleDateRoute
            /\ turn'.writes # <<>>
            /\ turn'.writes[1].ok) =>
             /\ DueDate(car_services', CarOf(users[call.phone])) = turn'.date_obj
             /\ HoldsNoDate(turn'.answer) =>
                  turn'.date_obj = AddDays(today, DefaultDays)
        /\ (turn'.handler = RescheduleDateRoute /\ turn'.writes = <<>>) =>
             car_services' = car_services ]_vars

\* a turn of RescheduleDateCaptured with an empty transcript, the date chain
\* finding no date, set the due date to the default
C39_SilenceSetDefaultDate ==
  /\ turn.handler = RescheduleDateRoute
  /\ turn.speech = <<>>
  /\ HoldsNoDate(turn.answer)
  /\ turn.writes # <<>>
  /\ turn.writes[1].ok
  /\ DueDate(car_services, CarOf(users[turn.phone])) = AddDays(today, DefaultDays)

-----------------------------------------------------------------------------
(* The caller who stays silent *)

\* the k-th verb of the response is followed by a spoken message and a hang-up
FallbackAfter(response, k) ==
  /\ Len(response.verbs) >= k + 2
  /\ IsSpeak(response.verbs[k + 1])
  /\ response.verbs[k + 2] = Hangup

\* C40 (as stated): in every response a Gather is followed by a spoken fallback and
\* a hang-up, so that a caller who says nothing hears a closing message
C40_GatherHasFallback ==
  (turn.handler # "none" /\ turn.response.kind = "twiml") =>
    \A k \in DOMAIN turn.response.verbs :
      turn.response.verbs[k].verb = "Gather" => FallbackAfter(turn.response, k)

\* service() asked whether to reschedule with a Gather and nothing after it: the
\* caller said nothing and the call ended without a closing message
C40_SilentCallerCutOff ==
  /\ turn.handler = ServiceRoute
  /\ turn.response.kind = "twiml"
  /\ Len(turn.response.verbs) = 1
  /\ turn.response.verbs[1].verb = "Gather"
  /\ turn.next = "End"
  /\ call.at = "End"

====
